---- MODULE Spec2Model ----
(***************************************************************************)
(* A model of cowlang: the value model (src/src/values/mod.rs), the        *)
(* tree-walking interpreter and its scope stack (src/src/interpreter), the *)
(* indentation-sensitive lexer (src/src/compiler/lexer.rs) and the         *)
(* dictionary and operator productions of the parser                       *)
(* (src/src/compiler/parser.rs).                                           *)
(***************************************************************************)
EXTENDS Integers, Sequences, FiniteSets, TLC

VARIABLES
    \* Interpreter::run: the program being run and the build profile
    program, build,
    \* the activations of Interpreter::step that own a statement loop
    frames,
    \* Scopes.scopes
    scopes,
    \* the (ControlFlow, Handle) pair the last step returned
    cflw, res,
    \* run's local `result`, and whether run is running, returned or panicked
    result, status,
    \* history of the statements, conditions and iterations executed so far
    trace,
    \* the Interpreter: its fields modules and variables
    interpreter,
    \* a Value its methods are called on, and the last call with its outcome
    mapValue, lastCall,
    \* a dictionary literal: its key / atom pairs as written, the HashMap the
    \* parser built, what Interpreter::step made of it, and how far it got
    kvsSource, kvsNode, dictValue, dictStage,
    \* an expression: its tokens as the parser gets them, the node the parser
    \* built, what Interpreter::step made of it, and how far it got
    opSource, opNode, opValue, opStage,
    \* Lexer: the fields of the struct
    original, remaining, at_start, at_end, empty_line, indents, position,
    \* the tokens the lexer handed to the parser, whether it is still lexing,
    \* and what compile_string made of them
    tokens, lexStatus, compiled

interpVars == <<program, build, frames, scopes, cflw, res, result, status, trace,
                interpreter>>
mapVars == <<mapValue, lastCall>>
opVars == <<opSource, opNode, opValue, opStage>>
dictVars == <<kvsSource, kvsNode, dictValue, dictStage, opVars>>
lexerVars == <<original, remaining, at_start, at_end, empty_line, indents, position>>
lexVars == <<lexerVars, tokens, lexStatus, compiled>>

vars == <<interpVars, mapVars, dictVars, lexVars>>

\* the variables of the parts a specification does not exercise
MapIdle == mapValue = [t |-> "None"] /\ lastCall = [op |-> "none"]
OpIdle ==
    /\ opSource = <<>> /\ opNode = [ok |-> FALSE, err |-> "not parsed"]
    /\ opValue = [ok |-> FALSE, err |-> "not evaluated"] /\ opStage = "idle"
DictIdle ==
    /\ kvsSource = <<>> /\ kvsNode = <<>>
    /\ dictValue = [ok |-> FALSE, err |-> "not evaluated"] /\ dictStage = "idle"
    /\ OpIdle
LexIdle ==
    /\ original = <<>> /\ remaining = <<>>
    /\ at_start = TRUE /\ at_end = FALSE /\ empty_line = TRUE
    /\ indents = <<>> /\ position = 0
    /\ tokens = <<>> /\ lexStatus = "idle"
    /\ compiled = [ok |-> FALSE, err |-> "not compiled"]

-----------------------------------------------------------------------------
(* Bounds *)

\* i64 and u64 are modelled IntBits wide (TLC's integers are 32 bits wide)
IntBits == 10
\* the literals of the generated programs are 0..MaxLit and the values next to i64::MAX
MaxLit == 2
\* a run is followed for at most MaxSteps executed statements and iterations
MaxSteps == 12

Pow2(n) == 2 ^ n
I64Max == Pow2(IntBits - 1) - 1
I64Min == 0 - Pow2(IntBits - 1)
U64Max == Pow2(IntBits) - 1
\* u8::MAX
U8Max == 255

-----------------------------------------------------------------------------
(* Value (src/src/values/mod.rs) *)

ValNone == [t |-> "None"]
VBool(b) == [t |-> "Bool", v |-> b]
VI64(i) == [t |-> "I64", v |-> i]
VU64(i) == [t |-> "U64", v |-> i]
VU8(i) == [t |-> "U8", v |-> i]
VStr(s) == [t |-> "Str", v |-> s]
VList(l) == [t |-> "List", v |-> l]
VMap(m) == [t |-> "Map", v |-> m]

EmptyMap == [k \in {} |-> ValNone]

\* Result<T, ValueError>
Ok(x) == [ok |-> TRUE, val |-> x]
Err(e) == [ok |-> FALSE, err |-> e]

\* two's complement wrap of n into the i64 range
WrapI64(n) == ((n - I64Min) % Pow2(IntBits)) + I64Min
WrapU64(n) == n % Pow2(IntBits)

\* `a + b` / `a * b` on i64: the debug profile panics on overflow, release wraps
ArithI64(n) ==
    IF n >= I64Min /\ n <= I64Max THEN Ok(n)
    ELSE IF build = "debug" THEN Err("ArithmeticOverflowPanic")
    ELSE Ok(WrapI64(n))

\* `a + b` on u8
ArithU8(n) ==
    IF n >= 0 /\ n <= U8Max THEN Ok(n)
    ELSE IF build = "debug" THEN Err("ArithmeticOverflowPanic")
    ELSE Ok(n % (U8Max + 1))

ArithU64(n) ==
    IF n >= 0 /\ n <= U64Max THEN Ok(n)
    ELSE IF build = "debug" THEN Err("ArithmeticOverflowPanic")
    ELSE Ok(WrapU64(n))

TryIntoI64_Narrowed(val) ==
    CASE val.t = "I64" -> Ok(val.v)
      [] val.t = "U64" -> Ok(val.v % (U8Max + 1))
      [] OTHER -> Err("TypeMismatch")

\* impl TryInto<i64> for Value
TryIntoI64(val) ==
    CASE val.t = "I64" -> Ok(val.v)
      [] val.t = "U64" -> Ok(WrapI64(val.v))
      [] OTHER -> Err("TypeMismatch")

\* impl TryInto<u64> for Value
TryIntoU64(val) ==
    CASE val.t = "I64" -> Ok(WrapU64(val.v))
      [] val.t = "U64" -> Ok(val.v)
      [] OTHER -> Err("TypeMismatch")

\* impl TryInto<u8> for Value
TryIntoU8(val) ==
    CASE val.t = "U8" -> Ok(val.v)
      [] val.t = "I64" ->
            IF val.v < 256 /\ val.v >= 0 THEN Ok(val.v) ELSE Err("IntegerOverflow")
      [] val.t = "U64" ->
            IF val.v < 256 THEN Ok(val.v) ELSE Err("IntegerOverflow")
      [] OTHER -> Err("TypeMismatch")

\* impl TryInto<bool> for Value
TryIntoBool(val) ==
    IF val.t = "Bool" THEN Ok(val.v) ELSE Err("TypeMismatch")

\* Value::as_bool
AsBool(val) ==
    CASE val.t = "Bool" -> Ok(val.v)
      [] val.t = "I64" -> Ok(val.v > 0)
      [] val.t = "U64" -> Ok(val.v > 0)
      [] OTHER -> Err("OperationNotSupported")

\* Value::add
ValueAdd(self, other) ==
    CASE self.t = "I64" ->
            LET val == TryIntoI64(other) IN
            IF ~val.ok THEN val
            ELSE LET sum == ArithI64(self.v + val.val) IN
                 IF sum.ok THEN Ok(VI64(sum.val)) ELSE sum
      [] self.t = "U64" ->
            LET val == TryIntoU64(other) IN
            IF ~val.ok THEN val
            ELSE LET sum == ArithU64(self.v + val.val) IN
                 IF sum.ok THEN Ok(VU64(sum.val)) ELSE sum
      [] self.t = "U8" ->
            LET val == TryIntoU8(other) IN
            IF ~val.ok THEN val
            ELSE LET sum == ArithU8(self.v + val.val) IN
                 IF sum.ok THEN Ok(VU8(sum.val)) ELSE sum
      [] OTHER -> Err("OperationNotSupported")

\* mutant: the product carries the type of the argument
ValueMultiply_RightType(self, other) ==
    CASE self.t = "I64" ->
            LET val == TryIntoI64(other) IN
            IF ~val.ok THEN val
            ELSE LET prod == ArithI64(self.v * val.val) IN
                 IF prod.ok THEN Ok([t |-> other.t, v |-> prod.val]) ELSE prod
      [] self.t = "U64" ->
            LET val == TryIntoU64(other) IN
            IF ~val.ok THEN val
            ELSE LET prod == ArithU64(self.v * val.val) IN
                 IF prod.ok THEN Ok([t |-> other.t, v |-> prod.val]) ELSE prod
      [] OTHER -> Err("OperationNotSupported")

\* Value::multiply
ValueMultiply(self, other) ==
    CASE self.t = "I64" ->
            LET val == TryIntoI64(other) IN
            IF ~val.ok THEN val
            ELSE LET prod == ArithI64(self.v * val.val) IN
                 IF prod.ok THEN Ok(VI64(prod.val)) ELSE prod
      [] self.t = "U64" ->
            LET val == TryIntoU64(other) IN
            IF ~val.ok THEN val
            ELSE LET prod == ArithU64(self.v * val.val) IN
                 IF prod.ok THEN Ok(VU64(prod.val)) ELSE prod
      [] OTHER -> Err("OperationNotSupported")

\* Value::is_greater_than
IsGreaterThan(self, other) ==
    CASE self.t = "I64" ->
            LET val == TryIntoI64(other) IN
            IF val.ok THEN Ok(self.v > val.val) ELSE val
      [] self.t = "U64" ->
            LET val == TryIntoU64(other) IN
            IF val.ok THEN Ok(self.v > val.val) ELSE val
      [] OTHER -> Err("TypeMismatch")

\* Value::is_smaller_than
IsSmallerThan(self, other) ==
    CASE self.t = "I64" ->
            LET val == TryIntoI64(other) IN
            IF val.ok THEN Ok(self.v < val.val) ELSE val
      [] self.t = "U64" ->
            LET val == TryIntoU64(other) IN
            IF val.ok THEN Ok(self.v < val.val) ELSE val
      [] OTHER -> Err("TypeMismatch")

\* Value::equals
ValueEquals(self, other) ==
    CASE self.t = "I64" ->
            LET val == TryIntoI64(other) IN
            IF val.ok THEN Ok(self.v = val.val) ELSE val
      [] self.t = "U64" ->
            LET val == TryIntoU64(other) IN
            IF val.ok THEN Ok(self.v = val.val) ELSE val
      [] self.t = "Bool" ->
            LET val == TryIntoBool(other) IN
            IF val.ok THEN Ok(self.v = val.val) ELSE val
      [] OTHER -> Err("TypeMismatch")

\* Value::negate
ValueNegate(self) ==
    IF self.t = "Bool" THEN Ok(VBool(~self.v)) ELSE Err("OperationNotSupported")

\* Value::map_insert: (the Result returned, self after the call)
MapInsert(self, key, value) ==
    IF self.t = "Map"
    THEN LET existed == key \in DOMAIN self.v
             content == [k \in (DOMAIN self.v) \cup {key} |->
                            IF k = key THEN value ELSE self.v[k]]
         IN [res |-> IF existed THEN Err("FieldAlreadyExists") ELSE Ok(ValNone),
             self |-> VMap(content)]
    ELSE [res |-> Err("TypeMismatch"), self |-> self]

\* Value::list_append: (the Result returned, self after the call)
ListAppend(self, value) ==
    IF self.t = "List"
    THEN [res |-> Ok(ValNone), self |-> VList(Append(self.v, value))]
    ELSE [res |-> Err("TypeMismatch"), self |-> self]

\* Value::num_children
NumChildren(self) ==
    CASE self.t = "Map" -> Cardinality(DOMAIN self.v)
      [] self.t = "List" -> Len(self.v)
      [] OTHER -> 0

\* impl TryInto<String> for Value
TryIntoString(val) ==
    CASE val.t = "Str" -> Ok(val.v)
      [] val.t \in {"I64", "U64"} -> Ok(ToString(val.v))
      [] OTHER -> Err("TypeMismatch")

\* Value::get
Get(self, key) ==
    IF key = "" THEN Err("InvalidKey")
    ELSE IF self.t = "Map"
    THEN IF key \in DOMAIN self.v THEN Ok(self.v[key]) ELSE Err("NoSuchChild")
    ELSE Err("TypeMismatch")

\* `pos as usize`
AsUsize(pos) == WrapU64(pos)

\* Value::get_child; Vec::get(i) is Some for i < len, the first element is i = 0
GetChild(self, key) ==
    CASE self.t = "Map" ->
            LET kstr == TryIntoString(key) IN
            IF ~kstr.ok THEN kstr
            ELSE IF kstr.val \in DOMAIN self.v THEN Ok(self.v[kstr.val])
            ELSE Err("NoSuchChild")
      [] self.t = "List" ->
            LET pos == TryIntoI64(key) IN
            IF ~pos.ok THEN pos
            ELSE IF AsUsize(pos.val) < Len(self.v) THEN Ok(self.v[AsUsize(pos.val) + 1])
            ELSE Err("IndexOutOfBounds")
      [] OTHER -> Err("TypeMismatch")

\* Expr::Cast on the value of its operand: `inner.try_into().unwrap()`, then
\* `val.into()`; an Err is the panic of unwrap, or of todo!()
Cast(inner, typename) ==
    CASE typename = "U8" ->
            LET val == TryIntoU8(inner) IN IF val.ok THEN Ok(VU8(val.val)) ELSE val
      [] typename = "I64" ->
            LET val == TryIntoI64(inner) IN IF val.ok THEN Ok(VI64(val.val)) ELSE val
      [] typename = "U64" ->
            LET val == TryIntoU64(inner) IN IF val.ok THEN Ok(VU64(val.val)) ELSE val
      [] OTHER -> Err("not yet implemented")

\* TypeDefinition and PrimitiveType
Primitive(p) == [def |-> "Primitive", of |-> <<p>>]
TypeList(elem) == [def |-> "List", of |-> <<elem>>]
TypeMap(key, val) == [def |-> "Map", of |-> <<key, val>>]

\* get_type, the loop of the Map and List arms: types are the types of the values
\* the iterator yields, in its order; past its end get_value_from_option gives
\* &Value::None, whose type ends the loop
RECURSIVE InferElementType(_, _)
InferElementType(types, i) ==
    LET TypeAt(k) == IF k <= Len(types) THEN types[k] ELSE Primitive("None")
        type_1 == TypeAt(1)
        type_2 == TypeAt(i)
    IN IF type_2 = Primitive("None") THEN type_1
       ELSE IF type_1 # type_2 THEN Primitive("Any")
       ELSE InferElementType(types, i + 1)

\* Value::get_type; order is the order in which hashmap.values() yields the values
\* of self when self is a Map (the values of the collections modelled are no Maps)
RECURSIVE GetType(_, _)
GetType(self, order) ==
    CASE self.t = "Bool" -> Primitive("Bool")
      [] self.t = "Str" -> Primitive("String")
      [] self.t = "I64" -> Primitive("I64")
      [] self.t = "U64" -> Primitive("U64")
      [] self.t = "U8" -> Primitive("U64")
      [] self.t = "Map" ->
            LET types == [i \in 1..Len(order) |-> GetType(self.v[order[i]], <<>>)]
            IN TypeMap(Primitive("String"), InferElementType(types, 2))
      [] self.t = "List" ->
            LET types == [i \in 1..Len(self.v) |-> GetType(self.v[i], <<>>)]
            IN TypeList(InferElementType(types, 2))
      [] self.t = "None" -> Primitive("None")

-----------------------------------------------------------------------------
(* Handle (src/src/interpreter/mod.rs) *)

HNone == [h |-> "None"]
\* Handle::Value(Rc<Cell<Value>>): val is what the cell holds; ref is <<>> for a
\* cell nothing else refers to (wrap_value), <<i, name>> for the cell of the
\* variable name of scope i (Scopes::get clones the Rc of the variable)
HValue(val) == [h |-> "Value", val |-> val, ref |-> <<>>]
HVariable(val, i, name) == [h |-> "Value", val |-> val, ref |-> <<i, name>>]
HBuiltinCallable(hdl, name) ==
    [h |-> "BuiltinCallable", val |-> hdl.val, ref |-> hdl.ref, name |-> name]
HObject(module) == [h |-> "Object", module |-> module]
HCallable(name) == [h |-> "Callable", name |-> name]
HIter(it) == [h |-> "Iter", it |-> it]

\* Handle::unwrap_value: panics unless the handle is a value
UnwrapValue(hdl) ==
    IF hdl.h = "Value" THEN Ok(hdl.val) ELSE Err("Handle is not a value!")

\* RangeIterable
RangeIterable(end, step, pos) == [kind |-> "Range", end |-> end, step |-> step, pos |-> pos]
\* ListIterable
ListIterable(list) == [kind |-> "List", list |-> list]

\* RangeIterable::next: ok is FALSE when `val + self.step` panics
RangeNext(it) ==
    LET val == it.pos IN
    IF val < it.end
    THEN LET pos == ArithI64(val + it.step) IN
         IF pos.ok
         THEN [ok |-> TRUE, some |-> TRUE, val |-> VI64(val), it |-> [it EXCEPT !.pos = pos.val]]
         ELSE [ok |-> FALSE, some |-> FALSE, val |-> ValNone, it |-> it]
    ELSE [ok |-> TRUE, some |-> FALSE, val |-> ValNone, it |-> it]

\* ListIterable::next
\* mutant: the iterator hands out the last element first (`self.list.pop()`)
ListNext_FromEnd(it) ==
    IF it.list = <<>>
    THEN [ok |-> TRUE, some |-> FALSE, val |-> ValNone, it |-> it]
    ELSE [ok |-> TRUE, some |-> TRUE, val |-> it.list[Len(it.list)],
          it |-> [it EXCEPT !.list = SubSeq(@, 1, Len(@) - 1)]]

ListNext(it) ==
    IF it.list = <<>>
    THEN [ok |-> TRUE, some |-> FALSE, val |-> ValNone, it |-> it]
    ELSE [ok |-> TRUE, some |-> TRUE, val |-> Head(it.list), it |-> [it EXCEPT !.list = Tail(@)]]

\* Iterable::next
IterNext(it) == IF it.kind = "Range" THEN RangeNext(it) ELSE ListNext(it)

\* Interpreter::default(): no modules, no variables; also what mem::take leaves
InterpreterDefault == [modules |-> EmptyMap, variables |-> EmptyMap]

-----------------------------------------------------------------------------
(* Scopes (src/src/interpreter/scopes.rs) *)

\* Scope::default
EmptyScope == [modules |-> EmptyMap, variables |-> EmptyMap]

\* Scopes::new
ScopesNew(modules, variables) == <<[modules |-> modules, variables |-> variables]>>

\* Scopes::push
ScopesPush(sc) == Append(sc, EmptyScope)

\* Scopes::pop: panics when only one scope is left
ScopesPop(sc) ==
    IF Len(sc) > 1 THEN Ok(SubSeq(sc, 1, Len(sc) - 1))
    ELSE Err("Cannot pop scope. Only one left")

\* the innermost scope that binds name as a variable, 0 if none
RECURSIVE OwnerFrom(_, _, _)
OwnerFrom(sc, i, name) ==
    IF i = 0 THEN 0
    ELSE IF name \in DOMAIN sc[i].variables THEN i
    ELSE OwnerFrom(sc, i - 1, name)

\* Scopes::get: modules are looked up before variables in each scope
RECURSIVE GetFrom(_, _, _)
GetFrom(sc, i, name) ==
    IF i = 0 THEN Err("No such value or module")
    ELSE IF name \in DOMAIN sc[i].modules THEN Ok(HObject(sc[i].modules[name]))
    ELSE IF name \in DOMAIN sc[i].variables
    THEN Ok(HVariable(sc[i].variables[name], i, name))
    ELSE GetFrom(sc, i - 1, name)

ScopesGet(sc, name) == GetFrom(sc, Len(sc), name)

\* mutant: binds in the scope that already has the name, if there is one
CreateVariable_Owner(sc, name, val) ==
    LET i == OwnerFrom(sc, Len(sc), name) IN
    Ok([sc EXCEPT ![IF i = 0 THEN Len(sc) ELSE i].variables = (name :> val) @@ @])

\* mutant: panics when any scope has the name
CreateVariable_AnyScope(sc, name, val) ==
    IF OwnerFrom(sc, Len(sc), name) # 0
    THEN Err("Variable already existed!")
    ELSE Ok([sc EXCEPT ![Len(sc)].variables = (name :> val) @@ @])

\* Scopes::create_variable: binds in the last scope, panics if the name is there
CreateVariable(sc, name, val) ==
    IF name \in DOMAIN sc[Len(sc)].variables
    THEN Err("Variable already existed!")
    ELSE Ok([sc EXCEPT ![Len(sc)].variables = (name :> val) @@ @])

\* mutant: rebinds in the last scope whenever some scope has the name
UpdateVariable_Innermost(sc, name, val) ==
    IF OwnerFrom(sc, Len(sc), name) = 0 THEN Err("Cannot update variable: did not exist")
    ELSE Ok([sc EXCEPT ![Len(sc)].variables = (name :> val) @@ @])

\* mutant: binds the name in the last scope when no scope has it
UpdateVariable_Creates(sc, name, val) ==
    LET i == OwnerFrom(sc, Len(sc), name) IN
    Ok([sc EXCEPT ![IF i = 0 THEN Len(sc) ELSE i].variables = (name :> val) @@ @])

\* Scopes::update_variable: rebinds in the innermost scope that has the name
UpdateVariable(sc, name, val) ==
    LET i == OwnerFrom(sc, Len(sc), name) IN
    IF i = 0 THEN Err("Cannot update variable: did not exist")
    ELSE Ok([sc EXCEPT ![i].variables = (name :> val) @@ @])

-----------------------------------------------------------------------------
(* Expr (src/src/compiler/ast.rs): the nodes of the generated programs *)

EI64(i) == [e |-> "I64", i |-> i]
EBool(b) == [e |-> "Bool", b |-> b]
EVar(name) == [e |-> "Var", name |-> name]
EBrackets(inner) == [e |-> "Brackets", inner |-> inner]
EAdd(lhs, rhs) == [e |-> "Add", lhs |-> lhs, rhs |-> rhs]
EMultiply(lhs, rhs) == [e |-> "Multiply", lhs |-> lhs, rhs |-> rhs]
ECompare(ctype, lhs, rhs) == [e |-> "Compare", ctype |-> ctype, lhs |-> lhs, rhs |-> rhs]
ENot(rhs) == [e |-> "Not", rhs |-> rhs]
\* step is <<>> (None) or <<node>> (Some)
ERange(start, end, step) == [e |-> "Range", start |-> start, end |-> end, step |-> step]
EList(elems) == [e |-> "List", elems |-> elems]
\* kvs is the HashMap<String, ParseNode> the parser built
EDictionary(kvs) == [e |-> "Dictionary", kvs |-> kvs]

EU64(i) == [e |-> "U64", i |-> i]
EU8(i) == [e |-> "U8", i |-> i]
EString(s_) == [e |-> "String", s |-> s_]
EGetMember(rhs, name) == [e |-> "GetMember", rhs |-> rhs, name |-> name]
\* span stands for the Span of the Call node and identifies it
ECall(span, callee, args) == [e |-> "Call", span |-> span, callee |-> callee, args |-> args]
EGetElement(callee, k) == [e |-> "GetElement", callee |-> callee, k |-> k]
ECast(value, typename) == [e |-> "Cast", value |-> value, typename |-> typename]

\* statement forms; span stands for the node's Span and identifies the node
SReturn(span, rhs) == [e |-> "Return", span |-> span, rhs |-> rhs]
SAssignNew(span, var, rhs) == [e |-> "AssignNew", span |-> span, var |-> var, rhs |-> rhs]
SAssign(span, var, rhs) == [e |-> "Assign", span |-> span, var |-> var, rhs |-> rhs]
SAddEquals(span, lhs, rhs) == [e |-> "AddEquals", span |-> span, lhs |-> lhs, rhs |-> rhs]
\* else_branch is <<>> (None) or <<statements>> (Some)
SIfElse(span, cond, body, else_branch) ==
    [e |-> "IfElse", span |-> span, cond |-> cond, body |-> body, else_branch |-> else_branch]
SIfElseRecursive(span, cond, body, else_branch) ==
    [e |-> "IfElseRecursive", span |-> span, cond |-> cond, body |-> body,
     else_branch |-> else_branch]
SForIn(span, iter, target_name, body) ==
    [e |-> "ForIn", span |-> span, iter |-> iter, target_name |-> target_name, body |-> body]

\* an expression in statement position, with its Span
SOp(span, node) ==
    [f \in (DOMAIN node) \cup {"span"} |-> IF f = "span" THEN span ELSE node[f]]

StatementForms == {"Return", "AssignNew", "Assign", "AddEquals", "IfElse",
                   "IfElseRecursive", "ForIn"}

-----------------------------------------------------------------------------
(* Interpreter::step on the expression forms: what it returns, or Err when it *)
(* panics                                                                     *)

\* some order in which a HashMap with these keys is iterated
RECURSIVE KeyOrder(_)
KeyOrder(keys) ==
    IF keys = {} THEN <<>>
    ELSE LET k == CHOOSE x \in keys : TRUE IN <<k>> \o KeyOrder(keys \ {k})

\* a step that did not panic: the Handle returned, the scopes after it (a builtin
\* may have changed what the cell of a variable holds) and the history of the
\* arguments it evaluated and the calls it dispatched
Stepped(hdl, sc, log) == [ok |-> TRUE, val |-> hdl, sc |-> sc, log |-> log]

\* a history entry of a Call: an argument evaluated (owner is its position in
\* args), or the dispatch (owner is the number of argument expressions)
Event(kind, span, owner, name, val, sc) ==
    [kind |-> kind, span |-> span, name |-> name, val |-> val, depth |-> Len(sc),
     owner |-> owner]

\* what the cell of a handle holds now
CellValue(sc, hdl) ==
    IF hdl.ref = <<>> THEN hdl.val ELSE sc[hdl.ref[1]].variables[hdl.ref[2]]

\* mutant: the changed copy is dropped, the cell keeps what it held
CellStore_Dropped(sc, hdl, val) == sc

\* mutant: variables bound with `let b = a` share one cell
CellStore_Aliased(sc, hdl, val) ==
    IF hdl.ref = <<>> THEN sc
    ELSE LET old == sc[hdl.ref[1]].variables[hdl.ref[2]] IN
         [i \in DOMAIN sc |->
            [sc[i] EXCEPT !.variables =
                [m \in DOMAIN sc[i].variables |->
                    IF sc[i].variables[m] = old THEN val ELSE sc[i].variables[m]]]]

\* `val_cpy.swap(&*val)` after a change of val_cpy: the cell now holds val
CellStore(sc, hdl, val) ==
    IF hdl.ref = <<>> THEN sc
    ELSE [sc EXCEPT ![hdl.ref[1]].variables[hdl.ref[2]] = val]

\* TestModule::get_member (src/tests/modules.rs)
ModuleGetMember(name) ==
    CASE name \in {"get_answer", "pass_string", "add_two"} -> Ok(HCallable(name))
      [] name = "MY_CONSTANT" -> Ok(HValue(VStr("this is a test")))
      [] OTHER -> Err("Unexpected function call")

\* Callable::call of GetAnswer, AddTwo and PassString (src/tests/modules.rs)
CallableCall(name, argv) ==
    CASE name = "get_answer" -> Ok(HValue(VI64(42)))
      [] name = "add_two" ->
            IF Len(argv) # 1 THEN Err("Invalid number of argument!")
            ELSE LET result_ == TryIntoI64(argv[1])
                     sum == IF result_.ok THEN ArithI64(result_.val + 2) ELSE result_
                 IN IF sum.ok THEN Ok(HValue(VI64(sum.val))) ELSE sum
      [] name = "pass_string" ->
            IF argv = <<>> THEN Err("called Option::unwrap() on a None value")
            ELSE LET thestring == TryIntoString(argv[1]) IN
                 IF thestring.ok THEN Ok(HValue(VStr(thestring.val))) ELSE thestring

\* the builtins of Expr::Call: len, values and append on the cell of hdl
BuiltinCall(sc, hdl, argv) ==
    LET val == CellValue(sc, hdl) IN
    CASE hdl.name = "len" -> Ok([hdl |-> HValue(VU64(NumChildren(val))), sc |-> sc])
      [] hdl.name = "values" ->
            IF val.t # "Map" THEN Err("called Result::unwrap() on an Err value")
            ELSE LET order == KeyOrder(DOMAIN val.v) IN
                 Ok([hdl |-> HValue(VList([i \in 1..Len(order) |-> val.v[order[i]]])),
                     sc |-> sc])
      [] hdl.name = "append" ->
            IF argv = <<>> THEN Err("called Option::unwrap() on a None value")
            ELSE LET a == ListAppend(val, argv[1]) IN
                 IF a.res.ok
                 THEN Ok([hdl |-> HValue(ValNone), sc |-> CellStore(sc, hdl, a.self)])
                 ELSE a.res
      [] OTHER -> Err("No such builtin")

\* Expr::Call once callee and arguments are evaluated: the dispatch
CallDispatch(res_, argv, sc, log, node) ==
    CASE res_.h = "Callable" ->
            LET r == CallableCall(res_.name, argv) IN
            IF r.ok
            THEN Stepped(r.val, sc,
                         Append(log, Event("Call", node.span, Len(node.args), res_.name,
                                           VList(argv), sc)))
            ELSE r
      [] res_.h = "BuiltinCallable" ->
            LET r == BuiltinCall(sc, res_, argv) IN
            IF r.ok
            THEN Stepped(r.val.hdl, r.val.sc,
                         Append(log, Event("Call", node.span, Len(node.args), res_.name,
                                           VList(argv), sc)))
            ELSE r
      [] OTHER -> Err("Not a callable!")

\* mutant: the arguments taken from the last to the first
ArgOrder_Reversed(args) == [i \in 1..Len(args) |-> Len(args) + 1 - i]

\* `for arg in args`: the positions of args in the order they are evaluated
ArgOrder(args) == [i \in 1..Len(args) |-> i]

RECURSIVE StepExpr(_, _)
RECURSIVE StepList(_, _, _, _, _)
RECURSIVE StepDictionary(_, _, _, _, _)
RECURSIVE StepArgs(_, _, _, _, _)

\* `.1.unwrap_value()` on what a step returned
Unwrapped(r) ==
    IF ~r.ok THEN r
    ELSE LET val == UnwrapValue(r.val) IN
         IF val.ok THEN Stepped(val.val, r.sc, r.log) ELSE val

\* Expr::List: the elements from index i on, appended to result
StepList(sc, elems, i, result_, log) ==
    IF i > Len(elems) THEN Stepped(HValue(result_), sc, log)
    ELSE LET elem == Unwrapped(StepExpr(sc, elems[i])) IN
         IF ~elem.ok THEN elem
         ELSE LET a == ListAppend(result_, elem.val) IN
              IF a.res.ok THEN StepList(elem.sc, elems, i + 1, a.self, log \o elem.log)
              ELSE a.res

\* Expr::Dictionary: the entries from index i of the iteration order on
StepDictionary(sc, kvs, order, res_, log) ==
    IF order = <<>> THEN Stepped(HValue(res_), sc, log)
    ELSE LET elem == Unwrapped(StepExpr(sc, kvs[Head(order)])) IN
         IF ~elem.ok THEN elem
         ELSE LET ins == MapInsert(res_, Head(order), elem.val) IN
              IF ins.res.ok
              THEN StepDictionary(elem.sc, kvs, Tail(order), ins.self, log \o elem.log)
              ELSE ins.res

\* Expr::Call, `for arg in args`: the arguments from the i-th evaluated on, each
\* copied out of its cell and pushed to argv
StepArgs(sc, node, i, argv, log) ==
    IF i > Len(node.args) THEN Stepped(argv, sc, log)
    ELSE LET pos == ArgOrder(node.args)[i]
             arg == StepExpr(sc, node.args[pos])
         IN IF ~arg.ok THEN arg
            ELSE IF arg.val.h # "Value" THEN Err("Argument is not a value!")
            ELSE StepArgs(arg.sc, node, i + 1, Append(argv, arg.val.val),
                          Append(log \o arg.log,
                                 Event("Arg", node.span, pos, "", arg.val.val, arg.sc)))

\* Expr::Range
StepRange(start, end, step) ==
    LET s == IF start.ok THEN TryIntoI64(start.val) ELSE start
        e == IF end.ok THEN TryIntoI64(end.val) ELSE end
        st == IF step.ok THEN TryIntoI64(step.val) ELSE step
    IN IF ~s.ok THEN s
       ELSE IF ~e.ok THEN e
       ELSE IF ~st.ok THEN st
       ELSE IF s.val > e.val THEN Err("invalid range")
       ELSE IF st.val <= 0 THEN Err("invalid step size")
       ELSE Ok(HIter(RangeIterable(e.val, st.val, s.val)))

\* Expr::Compare
StepCompare(ctype, left, right) ==
    LET r == CASE ctype = "Greater" -> IsGreaterThan(left, right)
               [] ctype = "Smaller" -> IsSmallerThan(left, right)
               [] ctype = "Equals" -> ValueEquals(left, right)
    IN IF r.ok THEN Ok(VBool(r.val)) ELSE r

\* wraps the Result of a value operation: `.unwrap()` then Handle::wrap_value
WrapValue(r, sc, log) == IF r.ok THEN Stepped(HValue(r.val), sc, log) ELSE r

\* Expr::GetElement once callee and key have their values
GetElement(res_, key) ==
    LET c == GetChild(res_, key) IN
    IF c.ok THEN c
    ELSE IF c.err = "NoSuchChild" THEN Err("No such child")
    ELSE Err("Got unexpected error")

StepExpr(sc, node) ==
    CASE node.e = "Var" ->
            LET hdl == ScopesGet(sc, node.name) IN
            IF hdl.ok THEN Stepped(hdl.val, sc, <<>>) ELSE hdl
      [] node.e = "Brackets" -> StepExpr(sc, node.inner)
      [] node.e \in {"Add", "Multiply", "Compare"} ->
            LET left == Unwrapped(StepExpr(sc, node.lhs))
                right == IF left.ok THEN Unwrapped(StepExpr(left.sc, node.rhs)) ELSE left
            IN IF ~right.ok THEN right
               ELSE WrapValue(CASE node.e = "Add" -> ValueAdd(left.val, right.val)
                                [] node.e = "Multiply" -> ValueMultiply(left.val, right.val)
                                [] node.e = "Compare" ->
                                        StepCompare(node.ctype, left.val, right.val),
                              right.sc, left.log \o right.log)
      [] node.e = "Not" ->
            LET right == Unwrapped(StepExpr(sc, node.rhs)) IN
            IF ~right.ok THEN right
            ELSE WrapValue(ValueNegate(right.val), right.sc, right.log)
      [] node.e = "GetMember" ->
            LET res_ == StepExpr(sc, node.rhs) IN
            IF ~res_.ok THEN res_
            ELSE CASE res_.val.h = "Object" ->
                        LET m == ModuleGetMember(node.name) IN
                        IF m.ok THEN Stepped(m.val, res_.sc, res_.log) ELSE m
                   [] res_.val.h = "Value" ->
                        Stepped(HBuiltinCallable(res_.val, node.name), res_.sc, res_.log)
                   [] OTHER -> Err("GetMember got unexpected Handle")
      [] node.e = "Call" ->
            LET res_ == StepExpr(sc, node.callee)
                argv == IF res_.ok THEN StepArgs(res_.sc, node, 1, <<>>, res_.log)
                        ELSE res_
            IN IF ~argv.ok THEN argv
               ELSE CallDispatch(res_.val, argv.val, argv.sc, argv.log, node)
      [] node.e = "GetElement" ->
            LET res_ == Unwrapped(StepExpr(sc, node.callee))
                key == IF res_.ok THEN Unwrapped(StepExpr(res_.sc, node.k)) ELSE res_
            IN IF ~key.ok THEN key
               ELSE WrapValue(GetElement(res_.val, key.val), key.sc, res_.log \o key.log)
      [] node.e = "Cast" ->
            LET inner == Unwrapped(StepExpr(sc, node.value)) IN
            IF ~inner.ok THEN inner
            ELSE WrapValue(Cast(inner.val, node.typename), inner.sc, inner.log)
      [] node.e = "Range" ->
            LET start == Unwrapped(StepExpr(sc, node.start))
                end == IF start.ok THEN Unwrapped(StepExpr(start.sc, node.end)) ELSE start
                step == IF ~end.ok THEN end
                        ELSE IF node.step = <<>> THEN Stepped(VI64(1), end.sc, <<>>)
                        ELSE Unwrapped(StepExpr(end.sc, node.step[1]))
                r == StepRange(start, end, step)
            IN IF r.ok THEN Stepped(r.val, step.sc, start.log \o end.log \o step.log)
               ELSE r
      [] node.e = "List" -> StepList(sc, node.elems, 1, VList(<<>>), <<>>)
      [] node.e = "Dictionary" ->
            StepDictionary(sc, node.kvs, KeyOrder(DOMAIN node.kvs), VMap(EmptyMap), <<>>)
      [] node.e = "Bool" -> Stepped(HValue(VBool(node.b)), sc, <<>>)
      [] node.e = "I64" -> Stepped(HValue(VI64(node.i)), sc, <<>>)
      [] node.e = "U64" -> Stepped(HValue(VU64(node.i)), sc, <<>>)
      [] node.e = "U8" -> Stepped(HValue(VU8(node.i)), sc, <<>>)
      [] node.e = "String" -> Stepped(HValue(VStr(node.s)), sc, <<>>)

\* Self::step(scopes, node).1.unwrap_value()
StepValue(sc, node) == Unwrapped(StepExpr(sc, node))

-----------------------------------------------------------------------------
(* Interpreter::run and Interpreter::step on the statement forms.           *)
(* A frame is an activation that loops over a statement list: run itself,   *)
(* the body of an IfElse / IfElseRecursive, the `return Self::step(scopes,  *)
(* else_branch)` of an IfElseRecursive, or a ForIn.                         *)

NoIter == [kind |-> "None"]

Frame(kind, span, body) ==
    [kind |-> kind, span |-> span, body |-> body, pc |-> 1,
     target |-> "", it |-> NoIter, inBody |-> TRUE]

ForFrame(span, body, target, it) ==
    [kind |-> "ForIn", span |-> span, body |-> body, pc |-> 1,
     target |-> target, it |-> it, inBody |-> FALSE]

\* mutant: a loop that never sees the Return signal
IsReturn_Ignored(c) == FALSE

\* `ControlFlow::Return == cflw` / `cflw == ControlFlow::Return`
IsReturn(c) == c = "Return"

Top == frames[Len(frames)]
Depth == Len(frames)

\* the innermost activation is about to execute the next statement of its list
AtStatement ==
    /\ status = "running"
    /\ ~IsReturn(cflw)
    /\ Top.inBody
    /\ Top.pc <= Len(Top.body)
    /\ Len(trace) < MaxSteps

CurStmt == Top.body[Top.pc]

\* the innermost activation has run its statement list to the end
AtBodyEnd ==
    /\ status = "running"
    /\ ~IsReturn(cflw)
    /\ Top.inBody
    /\ Top.pc > Len(Top.body)

\* the statement returned (Continue, hdl): the loop goes on to the next statement
NextStatement(fr) == [fr EXCEPT ![Len(fr)].pc = @ + 1]

\* the activation returns (Continue, Handle::None) to the loop that called it
ReturnToCaller(fr) == NextStatement(SubSeq(fr, 1, Len(fr) - 1))

\* a history entry: what was executed, the scope depth and the scope that bound
\* name (0 if none) when it was executed
Entry(kind, span, name, val) ==
    [kind |-> kind, span |-> span, name |-> name, val |-> val, depth |-> Len(scopes),
     owner |-> IF name = "" THEN 0 ELSE OwnerFrom(scopes, Len(scopes), name)]

\* a panic aborts the run
Panic ==
    /\ status' = "panic"
    /\ UNCHANGED <<program, build, frames, scopes, cflw, res, result, trace>>

\* Expr::Return once rhs is stepped to hdl
Returned(hdl) ==
    IF hdl.ok
    THEN /\ cflw' = "Return"
         /\ res' = hdl.val
         /\ scopes' = hdl.sc
         /\ trace' = Append(trace \o hdl.log, Entry("Return", CurStmt.span, "",
                            IF hdl.val.h = "Value" THEN hdl.val.val ELSE ValNone))
         /\ UNCHANGED <<program, build, frames, result, status>>
    ELSE Panic

\* Expr::Return
StepReturn ==
    /\ UNCHANGED <<interpreter, mapVars, dictVars, lexVars>>
    /\ AtStatement
    /\ CurStmt.e = "Return"
    /\ \E hdl \in {StepExpr(scopes, CurStmt.rhs)} : Returned(hdl)

\* Expr::AssignNew once rhs has the value val
AssignedNew(val) ==
    LET sc == IF val.ok THEN CreateVariable(val.sc, CurStmt.var, val.val) ELSE val
    IN IF sc.ok
       THEN /\ scopes' = sc.val
            /\ frames' = NextStatement(frames)
            /\ res' = HNone
            /\ trace' = Append(trace \o val.log,
                                Entry("AssignNew", CurStmt.span, CurStmt.var, val.val))
            /\ UNCHANGED <<program, build, cflw, result, status>>
       ELSE Panic

\* Expr::AssignNew
StepAssignNew ==
    /\ UNCHANGED <<interpreter, mapVars, dictVars, lexVars>>
    /\ AtStatement
    /\ CurStmt.e = "AssignNew"
    /\ \E val \in {StepValue(scopes, CurStmt.rhs)} : AssignedNew(val)

\* Expr::Assign once rhs has the value val
Assigned(val) ==
    LET sc == IF val.ok THEN UpdateVariable(val.sc, CurStmt.var, val.val) ELSE val
    IN IF sc.ok
       THEN /\ scopes' = sc.val
            /\ frames' = NextStatement(frames)
            /\ res' = HNone
            /\ trace' = Append(trace \o val.log,
                                Entry("Assign", CurStmt.span, CurStmt.var, val.val))
            /\ UNCHANGED <<program, build, cflw, result, status>>
       ELSE Panic

\* Expr::Assign
StepAssign ==
    /\ UNCHANGED <<interpreter, mapVars, dictVars, lexVars>>
    /\ AtStatement
    /\ CurStmt.e = "Assign"
    /\ \E val \in {StepValue(scopes, CurStmt.rhs)} : Assigned(val)

\* Expr::AddEquals once the variable has the value var and rhs the value rhs
AddedTo(var, rhs) ==
    LET right == IF var.ok THEN rhs ELSE var
        sum == IF right.ok THEN ValueAdd(var.val, right.val) ELSE right
        sc == IF sum.ok THEN UpdateVariable(right.sc, CurStmt.lhs, sum.val) ELSE sum
    IN IF sc.ok
       THEN /\ scopes' = sc.val
            /\ frames' = NextStatement(frames)
            /\ res' = HNone
            /\ trace' = Append(trace \o right.log,
                                Entry("AddEquals", CurStmt.span, CurStmt.lhs, sum.val))
            /\ UNCHANGED <<program, build, cflw, result, status>>
       ELSE Panic

\* Expr::AddEquals
StepAddEquals ==
    /\ UNCHANGED <<interpreter, mapVars, dictVars, lexVars>>
    /\ AtStatement
    /\ CurStmt.e = "AddEquals"
    /\ \E var \in {StepValue(scopes, EVar(CurStmt.lhs))}, right \in {StepValue(scopes, CurStmt.rhs)} :
        AddedTo(var, right)

\* an expression statement once it is stepped to hdl
Stepped_(hdl) ==
    IF hdl.ok
    THEN /\ res' = hdl.val
         /\ scopes' = hdl.sc
         /\ frames' = NextStatement(frames)
         /\ trace' = Append(trace \o hdl.log, Entry("Op", CurStmt.span, "", ValNone))
         /\ UNCHANGED <<program, build, cflw, result, status>>
    ELSE Panic

\* a statement that is an expression (the `op` production)
StepOp ==
    /\ UNCHANGED <<interpreter, mapVars, dictVars, lexVars>>
    /\ AtStatement
    /\ CurStmt.e \notin StatementForms
    /\ \E hdl \in {StepExpr(scopes, CurStmt)} : Stepped_(hdl)

\* `Self::step(scopes, cond).1.unwrap_value().as_bool().unwrap()`
CondOf(val) ==
    LET c == IF val.ok THEN AsBool(val.val) ELSE val
    IN IF c.ok THEN Stepped(c.val, val.sc, val.log) ELSE c

StepCond(sc, cond) == CondOf(StepValue(sc, cond))

\* mutant: the branches swapped
IfElseBranch_Inverted(stmt, c) ==
    IF c THEN stmt.else_branch ELSE <<stmt.body>>

\* what Expr::IfElse does once its condition is known
IfElseBranch(stmt, c) ==
    IF c THEN <<stmt.body>> ELSE stmt.else_branch

\* Expr::IfElse once the condition is c: the scope push of the branch taken
Branched(c) ==
    IF c.ok
    THEN /\ trace' = Append(trace \o c.log,
                             Entry("Cond", CurStmt.span, "", VBool(c.val)))
         /\ res' = HNone
         /\ IF IfElseBranch(CurStmt, c.val) # <<>>
            THEN /\ scopes' = ScopesPush(c.sc)
                 /\ frames' = Append(frames, Frame("IfElse", CurStmt.span,
                                                   IfElseBranch(CurStmt, c.val)[1]))
            ELSE /\ frames' = NextStatement(frames)
                 /\ scopes' = c.sc
         /\ UNCHANGED <<program, build, cflw, result, status>>
    ELSE Panic

\* Expr::IfElse
StepIfElse ==
    /\ UNCHANGED <<interpreter, mapVars, dictVars, lexVars>>
    /\ AtStatement
    /\ CurStmt.e = "IfElse"
    /\ \E c \in {StepCond(scopes, CurStmt.cond)} : Branched(c)

\* what Expr::IfElseRecursive does once its condition is known
IfElseRecursiveBranch(stmt, c) ==
    IF c THEN Frame("IfElseRecursive", stmt.span, stmt.body)
    ELSE Frame("Else", stmt.span, <<stmt.else_branch>>)

\* Expr::IfElseRecursive once the condition is c
BranchedRecursive(c) ==
    IF c.ok
    THEN /\ trace' = Append(trace \o c.log,
                             Entry("Cond", CurStmt.span, "", VBool(c.val)))
         /\ res' = HNone
         /\ frames' = Append(frames, IfElseRecursiveBranch(CurStmt, c.val))
         /\ scopes' = IF c.val THEN ScopesPush(c.sc) ELSE c.sc
         /\ UNCHANGED <<program, build, cflw, result, status>>
    ELSE Panic

\* Expr::IfElseRecursive
StepIfElseRecursive ==
    /\ UNCHANGED <<interpreter, mapVars, dictVars, lexVars>>
    /\ AtStatement
    /\ CurStmt.e = "IfElseRecursive"
    /\ \E c \in {StepCond(scopes, CurStmt.cond)} : BranchedRecursive(c)

\* Expr::ForIn, up to the loop: the iterator of a list value or of a range
ForInIter(hdl) ==
    CASE hdl.h = "Value" ->
            IF hdl.val.t = "List" THEN Ok(ListIterable(hdl.val.v))
            ELSE Err("Cannot iterate")
      [] hdl.h = "Iter" -> Ok(hdl.it)
      [] OTHER -> Err("Cannot iterate!")

\* Expr::ForIn once iter is stepped to hdl
Looped(hdl) ==
    LET it == IF hdl.ok THEN ForInIter(hdl.val) ELSE hdl
    IN IF it.ok
       THEN /\ frames' = Append(frames, ForFrame(CurStmt.span, CurStmt.body,
                                                 CurStmt.target_name, it.val))
            /\ res' = HNone
            /\ scopes' = hdl.sc
            /\ trace' = trace \o hdl.log
            /\ UNCHANGED <<program, build, cflw, result, status>>
       ELSE Panic

\* Expr::ForIn
StepForIn ==
    /\ UNCHANGED <<interpreter, mapVars, dictVars, lexVars>>
    /\ AtStatement
    /\ CurStmt.e = "ForIn"
    /\ \E hdl \in {StepExpr(scopes, CurStmt.iter)} : Looped(hdl)

\* `while let Some(val) = iter.next()`: the next iteration, or the end of the loop
ForNext ==
    /\ UNCHANGED <<interpreter, mapVars, dictVars, lexVars>>
    /\ status = "running"
    /\ ~IsReturn(cflw)
    /\ Top.kind = "ForIn"
    /\ ~Top.inBody
    /\ Len(trace) < MaxSteps
    /\ LET n == IterNext(Top.it) IN
       IF ~n.ok THEN Panic
       ELSE IF n.some
       THEN LET sc == CreateVariable(ScopesPush(scopes), Top.target, n.val) IN
            /\ scopes' = sc.val
            /\ frames' = [frames EXCEPT ![Len(frames)].it = n.it,
                                        ![Len(frames)].inBody = TRUE,
                                        ![Len(frames)].pc = 1]
            /\ trace' = Append(trace, Entry("Iter", Top.span, Top.target, n.val))
            /\ UNCHANGED <<program, build, cflw, res, result, status>>
       ELSE /\ frames' = ReturnToCaller(frames)
            /\ res' = HNone
            /\ UNCHANGED <<program, build, scopes, cflw, result, status, trace>>

\* the body of a ForIn iteration ran to its end: `scopes.pop()`
ForBodyEnd ==
    /\ UNCHANGED <<interpreter, mapVars, dictVars, lexVars>>
    /\ AtBodyEnd
    /\ Top.kind = "ForIn"
    /\ LET sc == ScopesPop(scopes) IN
       IF sc.ok
       THEN /\ scopes' = sc.val
            /\ frames' = [frames EXCEPT ![Len(frames)].inBody = FALSE]
            /\ UNCHANGED <<program, build, cflw, res, result, status, trace>>
       ELSE Panic

\* the body of an IfElse / IfElseRecursive ran to its end: `scopes.pop()`
IfBodyEnd ==
    /\ UNCHANGED <<interpreter, mapVars, dictVars, lexVars>>
    /\ AtBodyEnd
    /\ Top.kind \in {"IfElse", "IfElseRecursive"}
    /\ LET sc == ScopesPop(scopes) IN
       IF sc.ok
       THEN /\ scopes' = sc.val
            /\ frames' = ReturnToCaller(frames)
            /\ res' = HNone
            /\ UNCHANGED <<program, build, cflw, result, status, trace>>
       ELSE Panic

\* `return Self::step(scopes, else_branch)` returned (Continue, _)
ElseEnd ==
    /\ UNCHANGED <<interpreter, mapVars, dictVars, lexVars>>
    /\ AtBodyEnd
    /\ Top.kind = "Else"
    /\ frames' = ReturnToCaller(frames)
    /\ UNCHANGED <<program, build, scopes, cflw, res, result, status, trace>>

\* whether the activation pops its scope before it passes a Return on
PopsOnReturn(kind) == kind \in {"IfElse", "ForIn"}

\* `if cflw == ControlFlow::Return { ...; return (cflw, res); }` in a body loop
PropagateReturn ==
    /\ UNCHANGED <<interpreter, mapVars, dictVars, lexVars>>
    /\ status = "running"
    /\ IsReturn(cflw)
    /\ Len(frames) > 1
    /\ LET sc == IF PopsOnReturn(Top.kind) THEN ScopesPop(scopes) ELSE Ok(scopes) IN
       IF sc.ok
       THEN /\ scopes' = sc.val
            /\ frames' = SubSeq(frames, 1, Len(frames) - 1)
            /\ UNCHANGED <<program, build, cflw, res, result, status, trace>>
       ELSE Panic

\* mutant: run yields the value of the last statement
RunFallThrough_LastValue(result_, hdl) ==
    IF hdl.h = "Value" THEN hdl.val ELSE result_

\* run: `result`, when the loop over program.stmts ended without a Return
RunFallThrough(result_, hdl) == result_

\* run: `result = res.unwrap_value(); break;` and `result`
RunReturn ==
    /\ UNCHANGED <<interpreter, mapVars, dictVars, lexVars>>
    /\ status = "running"
    /\ IsReturn(cflw)
    /\ Len(frames) = 1
    /\ LET val == UnwrapValue(res) IN
       IF val.ok
       THEN /\ result' = val.val
            /\ status' = "done"
            /\ UNCHANGED <<program, build, frames, scopes, cflw, res, trace>>
       ELSE Panic

\* run: the loop over program.stmts ends without a Return
RunEnd ==
    /\ UNCHANGED <<interpreter, mapVars, dictVars, lexVars>>
    /\ AtBodyEnd
    /\ Len(frames) = 1
    /\ status' = "done"
    /\ result' = RunFallThrough(result, res)
    /\ UNCHANGED <<program, build, frames, scopes, cflw, res, trace>>

-----------------------------------------------------------------------------
(* The programs run: what compile_string builds for small sources *)

\* parser.rs if_stmt: an `else if` chain is an IfElseRecursive per `else if`,
\* ended by an IfElse that has the `else:` body (els = <<body>>) or none (<<>>)
RECURSIVE IfStmt(_, _, _, _, _)
IfStmt(k, spans, conds, bodies, els) ==
    IF k = Len(conds) THEN SIfElse(spans[k], conds[k], bodies[k], els)
    ELSE SIfElseRecursive(spans[k], conds[k], bodies[k],
                          IfStmt(k + 1, spans, conds, bodies, els))

Lits == 0..MaxLit
\* the literals next to i64::MAX
BigLits == {I64Max - 1, I64Max}

X == EVar("x")
Cmp(ctype, lhs, c) == ECompare(ctype, lhs, EI64(c))

\* let x = a / if .. / else if .. / else if .. / else: .. / tail
ChainBodies(span) ==
    {<<SReturn(span, EI64(span))>>, <<SAddEquals(span, "x", EI64(1))>>,
     <<SAssignNew(span, "x", EI64(7)), SReturn(span + 1, X)>>}
ChainConds1 == {Cmp("Smaller", X, 1), Cmp("Equals", X, 1)}
ChainConds2 == {Cmp("Equals", X, 1), Cmp("Greater", X, 0)}
ChainConds3 == {Cmp("Greater", X, 1), X}
ChainTails == {<<SReturn(90, X)>>, <<SAddEquals(90, "x", EI64(1))>>, <<SOp(90, EAdd(X, EI64(1)))>>}

ChainPrograms ==
    {<<SAssignNew(1, "x", EI64(a))>>
        \o <<IfStmt(1, <<10, 20, 30>>, SubSeq(<<c1, c2, c3>>, 1, n),
                    <<b1, b2, b3>>, els)>>
        \o tail :
        a \in Lits, n \in 1..3,
        c1 \in ChainConds1, c2 \in ChainConds2, c3 \in ChainConds3,
        b1 \in ChainBodies(11), b2 \in {<<SReturn(21, EI64(21))>>, <<SAddEquals(21, "x", EI64(1))>>},
        b3 \in {<<SReturn(31, EI64(31))>>},
        els \in {<<>>, <<<<SReturn(41, EI64(41))>>>>, <<<<SAddEquals(41, "x", EI64(2))>>>>},
        tail \in ChainTails}

\* let r = 0 / for i in range(s, e[, st]): body / tail
LoopBodies ==
    {<<SAssignNew(3, "y", EVar("i"))>>,
     <<SAddEquals(3, "r", EVar("i"))>>,
     <<SAddEquals(3, "i", EI64(1)), SAddEquals(4, "r", EVar("i"))>>,
     <<SIfElse(3, Cmp("Equals", EVar("i"), 1), <<SReturn(4, EVar("i"))>>, <<>>)>>}

LoopPrograms ==
    {<<SAssignNew(1, "r", EI64(0)),
       SForIn(2, ERange(EI64(s), EI64(e), st), "i", body)>> \o tail :
        s \in Lits \cup BigLits, e \in Lits \cup BigLits,
        st \in {<<>>, <<EI64(1)>>, <<EI64(2)>>, <<EI64(0)>>},
        body \in LoopBodies,
        tail \in {<<SReturn(90, EVar("r"))>>, <<>>}}

\* let x = a / a block whose body rebinds or shadows x / return x
ScopeBodies ==
    {<<st>> \o more :
        st \in {SAssignNew(3, "x", EI64(b)) : b \in Lits}
               \cup {SAssign(3, "x", EI64(b)) : b \in Lits}
               \cup {SAddEquals(3, "x", EI64(b)) : b \in Lits}
               \cup {SAssignNew(3, "y", EI64(b)) : b \in Lits}
               \cup {SAssign(3, "y", EI64(1)), SAddEquals(3, "y", EI64(1))},
        more \in {<<>>, <<SAddEquals(4, "x", EI64(1))>>, <<SAssignNew(4, "x", EI64(9))>>}}

ScopeBlock(kind, body) ==
    CASE kind = "if" -> SIfElse(2, EBool(TRUE), body, <<>>)
      [] kind = "else" -> SIfElse(2, EBool(FALSE), <<SReturn(5, EI64(5))>>, <<body>>)
      [] kind = "elif" ->
            SIfElseRecursive(2, EBool(TRUE), body,
                             SIfElse(6, EBool(TRUE), <<SReturn(7, EI64(7))>>, <<>>))
      [] kind = "for" -> SForIn(2, ERange(EI64(0), EI64(2), <<>>), "i", body)

ScopePrograms ==
    {<<SAssignNew(1, "x", EI64(a)), ScopeBlock(kind, body), SReturn(90, X)>> :
        a \in Lits, kind \in {"if", "else", "elif", "for"}, body \in ScopeBodies}

\* a Return three blocks deep: for / if or else-if chain / if
NestInner(kind, k) ==
    CASE kind = "if" ->
            SIfElse(3, Cmp("Equals", EVar("i"), k),
                    <<SIfElse(4, Cmp("Greater", X, 0), <<SReturn(5, EVar("i"))>>, <<>>),
                      SAddEquals(6, "x", EI64(1))>>, <<>>)
      [] kind = "else" ->
            SIfElse(3, Cmp("Smaller", EVar("i"), k), <<SAddEquals(6, "x", EI64(1))>>,
                    <<<<SIfElse(4, Cmp("Greater", X, 0), <<SReturn(5, EVar("i"))>>, <<>>)>>>>)
      [] kind = "elif" ->
            SIfElseRecursive(3, Cmp("Equals", EVar("i"), k),
                    <<SIfElse(4, Cmp("Greater", X, 0), <<SReturn(5, EVar("i"))>>, <<>>),
                      SAddEquals(6, "x", EI64(1))>>,
                    SIfElse(7, Cmp("Greater", EVar("i"), k), <<SReturn(8, X)>>, <<>>))

NestPrograms ==
    {<<SAssignNew(1, "x", EI64(a)),
       SForIn(2, ERange(EI64(0), EI64(3), <<>>), "i",
              <<NestInner(kind, k), SAddEquals(9, "x", EI64(1))>>),
       SReturn(90, X)>> :
        a \in Lits, k \in Lits, kind \in {"if", "else", "elif"}}

VarL == EVar("l")
VarO == EVar("o")
\* l.append(x), l.len(), test_module.name(args)
Append_(span, x) == ECall(span, EGetMember(VarL, "append"), <<x>>)
Len_(span) == ECall(span, EGetMember(VarL, "len"), <<>>)
Host(span, name, args) == ECall(span, EGetMember(EVar("test_module"), name), args)

\* let l = [..] / l.append(x), at the top or in a block / return l, l.len() or l[k]
AppendArgs == {EI64(7), VarL, Len_(51), EGetElement(VarL, EI64(0)), Append_(51, EI64(8))}
AppendTails ==
    {<<SReturn(90, VarL)>>, <<SReturn(90, Len_(52))>>, <<SReturn(90, EGetElement(VarL, EI64(1)))>>}

AppendPrograms ==
    {<<SAssignNew(1, "l", EList(elems))>> \o block \o tail :
        elems \in {<<>>, <<EI64(1)>>, <<EI64(1), EI64(2)>>},
        block \in UNION {{<<SOp(3, Append_(50, x))>>,
                          <<ScopeBlock("if", <<SOp(3, Append_(50, x))>>)>>,
                          <<ScopeBlock("for", <<SOp(3, Append_(50, x))>>)>>} :
                         x \in AppendArgs},
        tail \in AppendTails}

\* let o = a list or a dictionary / return o[key], or let c = o[key] / return c
IndexObjects ==
    {EList(<<>>), EList(<<EI64(5), EI64(6), EI64(7)>>),
     EDictionary(("a" :> EI64(1)) @@ ("1" :> EI64(2)))}
IndexKeys ==
    {EI64(i) : i \in 0..(MaxLit + 1)} \cup {EI64(I64Max)}
    \cup {EU64(0), EU64(MaxLit), EU64(I64Max + 1), EU64(U64Max)}
    \cup {ECast(EU64(U64Max), "I64"), ECast(EU64(I64Max + 1), "I64")}
    \cup {EString("a"), EString("c"), EString("")}
    \cup {EU8(0), EU8(U8Max)}

IndexPrograms ==
    {<<SAssignNew(1, "o", obj)>> \o tail :
        obj \in IndexObjects,
        tail \in UNION {{<<SReturn(90, EGetElement(VarO, key))>>,
                         <<SAssignNew(2, "c", EGetElement(VarO, key)), SReturn(90, EVar("c"))>>} :
                        key \in IndexKeys}}

\* let l = [0] / a statement with a call, at the top or in a loop / return l
CallStatements ==
    {SOp(3, Host(50, "get_answer", <<Append_(51, EI64(1)), Len_(52), EGetElement(VarL, EI64(1))>>)),
     SOp(3, Host(50, "get_answer", <<>>)),
     SOp(3, Host(50, "get_answer", <<EI64(1), Len_(51)>>)),
     SReturn(3, Host(50, "add_two", <<Len_(51)>>)),
     SReturn(3, Host(50, "pass_string", <<EString("a"), Append_(51, EI64(2))>>)),
     SOp(3, Append_(50, Len_(51))),
     SOp(3, Append_(50, Host(51, "add_two", <<Len_(52)>>))),
     SOp(3, Host(50, "get_answer", <<EI64(1), ERange(EI64(0), EI64(1), <<>>)>>)),
     SOp(3, Host(50, "get_answer", <<Append_(51, EI64(1)), EVar("test_module")>>)),
     SOp(3, Host(50, "add_two", <<EI64(1), EI64(2)>>)),
     SOp(3, ECall(50, EGetMember(VarL, "push"), <<EI64(1)>>)),
     SOp(3, ECall(50, VarL, <<Append_(51, EI64(1))>>)),
     SAssignNew(3, "n", Host(50, "add_two", <<Host(51, "add_two", <<Len_(52)>>)>>))}

CallPrograms ==
    {<<SAssignNew(1, "l", EList(<<EI64(0)>>))>> \o block \o <<SReturn(90, VarL)>> :
        block \in UNION {{<<st>>, <<ScopeBlock("for", <<st>>)>>} : st \in CallStatements}}

\* let m = {..} / let r = m.values(), at the top or in a block / return m.len(),
\* r or m
VarM == EVar("m")
Values_(span) == ECall(span, EGetMember(VarM, "values"), <<>>)
ValuesMaps ==
    {EDictionary(EmptyMap), EDictionary("a" :> EI64(1)),
     EDictionary(("a" :> EI64(1)) @@ ("b" :> EI64(1))),
     EDictionary(("a" :> EI64(1)) @@ ("b" :> EI64(2)))}
ValuesTails ==
    {<<SReturn(90, ECall(52, EGetMember(VarM, "len"), <<>>))>>, <<SReturn(90, VarM)>>,
     <<SReturn(90, EVar("r"))>>}

ValuesPrograms ==
    {<<SAssignNew(1, "m", map)>> \o block \o tail :
        map \in ValuesMaps,
        block \in {<<SAssignNew(3, "r", Values_(50))>>,
                   <<ScopeBlock("if", <<SAssignNew(3, "r", Values_(50))>>)>>},
        tail \in ValuesTails}

\* let a = .. / let b = a / an Assign, AddEquals or append on a or on b, at the
\* top or in a block / return a or b
AppendTo(span, name, x) == ECall(span, EGetMember(EVar(name), "append"), <<x>>)
AliasOps ==
    UNION {{SAssign(3, n, EI64(2)), SAssign(3, n, EList(<<EI64(2)>>)),
            SAddEquals(3, n, EI64(1)), SOp(3, AppendTo(50, n, EI64(2)))} :
           n \in {"a", "b"}}

AliasPrograms ==
    {<<SAssignNew(1, "a", init), SAssignNew(2, "b", EVar("a"))>> \o block
     \o <<SReturn(90, EVar(out))>> :
        init \in {EList(<<EI64(1)>>), EI64(1)},
        block \in UNION {{<<op>>, <<ScopeBlock("if", <<op>>)>>} : op \in AliasOps},
        out \in {"a", "b"}}

\* let l = [..] / for i in l: a body that appends to l or not / return l or
\* l.len()
SnapshotBodies ==
    {<<SOp(3, Append_(50, EVar("i")))>>, <<SOp(3, Append_(50, EI64(7)))>>,
     <<SAssignNew(3, "y", EVar("i"))>>}

SnapshotPrograms ==
    {<<SAssignNew(1, "l", EList(elems)), SForIn(2, VarL, "i", body)>> \o tail :
        elems \in {<<>>, <<EI64(1)>>, <<EI64(1), EI64(2)>>, <<EI64(2), EI64(1)>>},
        body \in SnapshotBodies,
        tail \in {<<SReturn(90, VarL)>>, <<>>}}

Programs ==
    {<<>>} \cup ChainPrograms \cup LoopPrograms \cup ScopePrograms \cup NestPrograms
    \cup AppendPrograms \cup IndexPrograms \cup CallPrograms \cup ValuesPrograms
    \cup AliasPrograms \cup SnapshotPrograms

-----------------------------------------------------------------------------
(* Interpreter::default(), register_module("test_module", ..), run(&program) *)

Init ==
    /\ MapIdle
    /\ DictIdle
    /\ LexIdle
    /\ program \in Programs
    /\ build \in {"debug", "release"}
    /\ frames = <<Frame("run", 0, program)>>
    /\ interpreter = InterpreterDefault
    /\ scopes = ScopesNew("test_module" :> 1, EmptyMap)
    /\ cflw = "Continue"
    /\ res = HNone
    /\ result = ValNone
    /\ status = "running"
    /\ trace = <<>>

Next ==
    \/ StepReturn
    \/ StepAssignNew
    \/ StepAssign
    \/ StepAddEquals
    \/ StepOp
    \/ StepIfElse
    \/ StepIfElseRecursive
    \/ StepForIn
    \/ ForNext
    \/ ForBodyEnd
    \/ IfBodyEnd
    \/ ElseEnd
    \/ PropagateReturn
    \/ RunReturn
    \/ RunEnd

Spec == Init /\ [][Next]_vars

\* the loops over a list, and a few runs through the other statement forms
LivePrograms ==
    SnapshotPrograms
    \cup {<<SAssignNew(1, "x", EI64(0)), ScopeBlock(kind, <<SAssign(3, "x", EI64(1))>>),
             SReturn(90, X)>> : kind \in {"if", "else", "elif", "for"}}
    \cup {<<SAssignNew(1, "x", EI64(0)),
             SForIn(2, ERange(EI64(0), EI64(3), <<>>), "i",
                    <<NestInner("elif", 1), SAddEquals(9, "x", EI64(1))>>),
             SReturn(90, X)>>}

LiveInit == Init /\ program \in LivePrograms

\* run executes step after step until the program ends, returns or panics
LiveSpec == LiveInit /\ [][Next]_vars /\ WF_vars(Next)

-----------------------------------------------------------------------------
(* Properties of Interpreter::run *)

VarNames == {"x", "y", "r", "i"}

HasReturned == \E i \in DOMAIN trace : trace[i].kind = "Return"

FirstReturn ==
    trace[CHOOSE i \in DOMAIN trace :
            /\ trace[i].kind = "Return"
            /\ \A j \in 1..(i - 1) : trace[j].kind # "Return"]

\* C1: once a Return statement has executed, no statement and no loop iteration
\* executes any more, the run does not panic, and run returns that Return's value
C1_ReturnStopsRun ==
    [][HasReturned =>
        /\ trace' = trace
        /\ status' # "panic"
        /\ (status' = "done" => result' = FirstReturn.val)]_vars

\* a run that returned from a Return three blocks deep (for / if / if)
C1_Witness ==
    /\ status = "done"
    /\ HasReturned
    /\ FirstReturn.depth >= 4
    /\ result = FirstReturn.val
    /\ Len(program) = 3

\* C2: a run in which no Return executed yields Value::None
C2_NoReturnYieldsNone ==
    (status = "done" /\ ~HasReturned) => result = ValNone

\* a run of three statements or more that ended on an expression statement
C2_Witness ==
    /\ status = "done"
    /\ ~HasReturned
    /\ Len(trace) >= 3
    /\ res.h = "Value"
    /\ result = ValNone

\* a step that executes `let name = ..` in a nested scope while an outer scope binds name
ShadowingStep ==
    /\ AtStatement
    /\ CurStmt.e = "AssignNew"
    /\ Len(scopes) > 1
    /\ OwnerFrom(scopes, Len(scopes) - 1, CurStmt.var) > 0
    /\ status' = "running"

\* C3: AssignNew in a nested scope binds the name in the innermost scope and leaves
\* every outer scope as it was; popping a scope gives back exactly the outer scopes
C3_ShadowNeverMutatesOuter ==
    [][/\ ShadowingStep =>
            /\ Len(scopes') = Len(scopes)
            /\ SubSeq(scopes', 1, Len(scopes) - 1) = SubSeq(scopes, 1, Len(scopes) - 1)
            /\ CurStmt.var \in DOMAIN scopes'[Len(scopes)].variables
            /\ CurStmt.var \notin DOMAIN scopes[Len(scopes)].variables
       /\ Len(scopes') < Len(scopes) =>
            scopes' = SubSeq(scopes, 1, Len(scopes) - 1)]_vars

\* the run is over, a nested `let x` shadowed the root's x with another value, and
\* the root's x, which the run returned, is not that value
C3_Witness ==
    /\ status = "done"
    /\ Len(scopes) = 1
    /\ \E i \in DOMAIN trace :
        /\ trace[i].kind = "AssignNew"
        /\ trace[i].depth > 1
        /\ trace[i].owner = 1
        /\ scopes[1].variables[trace[i].name] # trace[i].val
        /\ result = scopes[1].variables[trace[i].name]

AssignedName(stmt) == IF stmt.e = "Assign" THEN stmt.var ELSE stmt.lhs

\* the value an Assign / AddEquals statement binds
AssignedValue(sc, stmt) ==
    IF stmt.e = "Assign" THEN StepValue(sc, stmt.rhs).val
    ELSE ValueAdd(ScopesGet(sc, stmt.lhs).val.val, StepValue(sc, stmt.rhs).val).val

\* a step that executes Assign / AddEquals in a nested scope on a name only outer scopes bind
OuterRebindStep ==
    /\ AtStatement
    /\ CurStmt.e \in {"Assign", "AddEquals"}
    /\ Len(scopes) > 1
    /\ AssignedName(CurStmt) \notin DOMAIN scopes[Len(scopes)].variables
    /\ OwnerFrom(scopes, Len(scopes), AssignedName(CurStmt)) > 0
    /\ status' = "running"

\* C4: Assign / AddEquals on a name bound only in outer scopes rebinds it in the
\* innermost scope that has it and changes nothing else (no binding appears in the
\* nested scope); popping a scope leaves every outer binding readable as it was
C4_RebindsInOwningScope ==
    [][/\ OuterRebindStep =>
            scopes' = [scopes EXCEPT
                ![OwnerFrom(scopes, Len(scopes), AssignedName(CurStmt))].variables =
                    [@ EXCEPT ![AssignedName(CurStmt)] = AssignedValue(scopes, CurStmt)]]
       /\ Len(scopes') < Len(scopes) =>
            \A n \in VarNames :
                GetFrom(scopes', Len(scopes'), n) = GetFrom(scopes, Len(scopes) - 1, n)]_vars

\* the run is over, and the value a nested Assign / AddEquals gave the root's
\* variable is the one the root scope holds and the run returned
C4_Witness ==
    /\ status = "done"
    /\ Len(scopes) = 1
    /\ \E i \in DOMAIN trace :
        /\ trace[i].kind \in {"Assign", "AddEquals"}
        /\ trace[i].depth > 1
        /\ trace[i].owner = 1
        /\ trace[1].val # trace[i].val
        /\ scopes[1].variables[trace[i].name] = trace[i].val
        /\ result = trace[i].val

\* the conditional nodes of one if / else-if chain, in source order
RECURSIVE ChainNodes(_)
ChainNodes(node) ==
    IF node.e = "IfElseRecursive" THEN <<node>> \o ChainNodes(node.else_branch)
    ELSE <<node>>

CondEntries(span) == {i \in DOMAIN trace : trace[i].kind = "Cond" /\ trace[i].span = span}

CondIs(span, b) == \E i \in CondEntries(span) : trace[i].val = VBool(b)

\* some statement of the list has executed
Executed(stmts) ==
    \E i \in DOMAIN trace, j \in DOMAIN stmts :
        trace[i].kind # "Cond" /\ trace[i].span = stmts[j].span

ElseOf(ch) == ch[Len(ch)].else_branch

\* C9: in a chain at the top of the program each condition is evaluated at most
\* once and only after all earlier ones were false; a body runs only if its own
\* condition was true, the else body only if all were false; and a finished run
\* has entered the body of the first true condition, or the else body
C9_FirstTrueBranchOnly ==
    \A p \in DOMAIN program :
        program[p].e \in {"IfElse", "IfElseRecursive"} =>
            LET ch == ChainNodes(program[p]) IN
            /\ \A k \in DOMAIN ch :
                /\ Cardinality(CondEntries(ch[k].span)) <= 1
                /\ CondEntries(ch[k].span) # {} =>
                        \A j \in 1..(k - 1) : CondIs(ch[j].span, FALSE)
                /\ Executed(ch[k].body) => CondIs(ch[k].span, TRUE)
                /\ (CondIs(ch[k].span, TRUE) /\ status = "done") =>
                        Executed(<<ch[k].body[1]>>)
            /\ ElseOf(ch) # <<>> =>
                /\ Executed(ElseOf(ch)[1]) => \A k \in DOMAIN ch : CondIs(ch[k].span, FALSE)
                /\ ((\A k \in DOMAIN ch : CondIs(ch[k].span, FALSE)) /\ status = "done") =>
                        Executed(<<ElseOf(ch)[1][1]>>)

\* a finished run of a three-condition chain: the first condition was false, the
\* second true and its body ran, the third was never evaluated although it holds
C9_Witness ==
    /\ status = "done"
    /\ \E p \in DOMAIN program :
        /\ program[p].e = "IfElseRecursive"
        /\ LET ch == ChainNodes(program[p]) IN
            /\ Len(ch) = 3
            /\ CondIs(ch[1].span, FALSE)
            /\ CondIs(ch[2].span, TRUE)
            /\ Executed(ch[2].body)
            /\ ~Executed(ch[1].body)
            /\ ~Executed(ch[3].body)
            /\ CondEntries(ch[3].span) = {}
            /\ StepCond(scopes, ch[3].cond).ok
            /\ StepCond(scopes, ch[3].cond).val

\* the first n values of start, start + step, .. below end
RECURSIVE RangeValues(_, _, _, _)
RangeValues(pos, end, step, n) ==
    IF n = 0 \/ pos >= end THEN <<>>
    ELSE <<pos>> \o RangeValues(pos + step, end, step, n - 1)

\* the values the loop at span bound to its variable, in order
IterVals(span) ==
    LET sel == SelectSeq(trace, LAMBDA en : en.kind = "Iter" /\ en.span = span) IN
    [i \in 1..Len(sel) |-> sel[i].val.v]

\* the values the body statement at span bound, in order
BodyVals(span) ==
    LET sel == SelectSeq(trace, LAMBDA en : en.kind = "AssignNew" /\ en.span = span) IN
    [i \in 1..Len(sel) |-> sel[i].val.v]

IsPrefix(a, b) == Len(a) <= Len(b) /\ SubSeq(b, 1, Len(a)) = a

RangeStep(node) == IF node.step = <<>> THEN 1 ELSE node.step[1].i

\* `for i in range(start, end[, step]): let y = i` with start <= end and step > 0
AscendingLoop(stmt) ==
    /\ stmt.e = "ForIn"
    /\ stmt.iter.e = "Range"
    /\ stmt.iter.start.i <= stmt.iter.end.i
    /\ RangeStep(stmt.iter) > 0
    /\ stmt.body = <<SAssignNew(3, "y", EVar("i"))>>

\* C10: a loop over range(start, end, step) with start <= end and step > 0 does
\* not fail, binds start, start + step, .. in order, runs its body once per value,
\* and is over when the last value below end has been used
C10_RangeVisitsEachValueOnce ==
    \A p \in DOMAIN program :
        AscendingLoop(program[p]) =>
            LET r == program[p].iter
                expected == RangeValues(r.start.i, r.end.i, RangeStep(r), MaxSteps + 1)
            IN
            /\ status # "panic"
            /\ IsPrefix(IterVals(program[p].span), expected)
            /\ IsPrefix(BodyVals(3), IterVals(program[p].span))
            /\ Len(IterVals(program[p].span)) - Len(BodyVals(3)) <= 1
            /\ status = "done" =>
                /\ IterVals(program[p].span) = expected
                /\ BodyVals(3) = expected

\* C18: a `let` whose right side has a value panics if the innermost scope binds
\* the name, leaving the scopes as they are; if not it binds the name to that value
\* in the innermost scope, whatever the outer scopes bind and whatever an earlier
\* iteration of the enclosing loop bound
C18_LetFailsOnlyOnInnermostBinding ==
    [][(AtStatement /\ CurStmt.e = "AssignNew" /\ StepValue(scopes, CurStmt.rhs).ok) =>
        IF CurStmt.var \in DOMAIN scopes[Len(scopes)].variables
        THEN status' = "panic" /\ scopes' = scopes
        ELSE /\ status' = "running"
             /\ Len(scopes') = Len(scopes)
             /\ CurStmt.var \in DOMAIN scopes'[Len(scopes)].variables
             /\ scopes'[Len(scopes)].variables[CurStmt.var]
                    = StepValue(scopes, CurStmt.rhs).val
             /\ trace' = Append(trace \o StepValue(scopes, CurStmt.rhs).log,
                                Entry("AssignNew", CurStmt.span, CurStmt.var,
                                      StepValue(scopes, CurStmt.rhs).val))]_vars

\* a finished run in which the `let` of a loop body bound, in two iterations, a
\* name that an outer scope binds too
C18_Witness ==
    /\ status = "done"
    /\ \E i, j \in DOMAIN trace :
        /\ i < j
        /\ trace[i].kind = "AssignNew" /\ trace[j].kind = "AssignNew"
        /\ trace[i].span = trace[j].span
        /\ trace[i].name = trace[j].name
        /\ trace[i].owner > 0 /\ trace[i].owner < trace[i].depth
        /\ trace[j].owner > 0 /\ trace[j].owner < trace[j].depth

\* the statement at hand is an Assign or AddEquals on a name no scope binds
UpdatesUnbound ==
    /\ Top.inBody
    /\ Top.pc <= Len(Top.body)
    /\ CurStmt.e \in {"Assign", "AddEquals"}
    /\ OwnerFrom(scopes, Len(scopes), AssignedName(CurStmt)) = 0

\* C19: an Assign or AddEquals on a name that no scope binds panics, and the
\* scopes are left as they were: no scope binds the name afterwards
C19_UpdateOfUnboundIsFatal ==
    [][(AtStatement /\ UpdatesUnbound) =>
        /\ status' = "panic"
        /\ scopes' = scopes
        /\ OwnerFrom(scopes', Len(scopes'), AssignedName(CurStmt)) = 0]_vars

\* the run was aborted at an Assign, inside a block, on a name no scope binds
C19_Witness ==
    /\ status = "panic"
    /\ UpdatesUnbound
    /\ CurStmt.e = "Assign"
    /\ Len(scopes) > 1

\* the statement at hand is the call name.append(x), name a variable
IsAppendCall(stmt) ==
    /\ stmt.e = "Call"
    /\ stmt.callee.e = "GetMember"
    /\ stmt.callee.name = "append"
    /\ stmt.callee.rhs.e = "Var"
    /\ Len(stmt.args) = 1

\* C12: l.append(x), l a variable that holds a list and x an expression that has
\* a value, changes the list l holds and nothing else: it is the list l held
\* when x was evaluated with the value of x added at the end, and l.len() is one
\* more than the number of elements that list had
C12_AppendMutatesInPlace ==
    [][(/\ AtStatement
        /\ IsAppendCall(CurStmt)
        /\ OwnerFrom(scopes, Len(scopes), CurStmt.callee.rhs.name) # 0
        /\ StepValue(scopes, CurStmt.args[1]).ok
        /\ StepValue(scopes, CurStmt.callee.rhs).val.t = "List")
       => LET l == CurStmt.callee.rhs.name
              i == OwnerFrom(scopes, Len(scopes), l)
              x == StepValue(scopes, CurStmt.args[1])
              before == x.sc[i].variables[l].v
              after == scopes'[i].variables[l]
              len == StepValue(scopes', ECall(0, EGetMember(EVar(l), "len"), <<>>))
          IN /\ status' = "running"
             /\ after.t = "List"
             /\ Len(after.v) = Len(before) + 1
             /\ after.v[Len(after.v)] = x.val
             /\ SubSeq(after.v, 1, Len(before)) = before
             /\ len.ok /\ len.val = VU64(Len(before) + 1)
             /\ scopes' = [x.sc EXCEPT ![i].variables[l] = after]]_vars

\* a finished run that returned l after l.append(7), called inside a block on
\* the list [1, 2] of the outer scope
C12_Witness ==
    /\ status = "done"
    /\ result = VList(<<VI64(1), VI64(2), VI64(7)>>)
    /\ \E k \in DOMAIN trace :
        /\ trace[k].kind = "Call"
        /\ trace[k].name = "append"
        /\ trace[k].val = VList(<<VI64(7)>>)
        /\ trace[k].depth = 2

\* the name a key has in a map: a string itself, an integer in decimal digits
KeyName(key) == IF key.t = "Str" THEN key.v ELSE ToString(key.v)

\* obj[key] has a stored child: a map entry of that name, or a list element at
\* the integer index key
HasChild(obj, key) ==
    \/ /\ obj.t = "Map"
       /\ key.t \in {"Str", "I64", "U64", "U8"}
       /\ KeyName(key) \in DOMAIN obj.v
    \/ /\ obj.t = "List"
       /\ key.t \in {"I64", "U64", "U8"}
       /\ 0 <= key.v /\ key.v < Len(obj.v)

StoredChild(obj, key) ==
    IF obj.t = "Map" THEN obj.v[KeyName(key)] ELSE obj.v[key.v + 1]

\* the statement at hand is `return obj[key]` or `let c = obj[key]`
IsIndexing(stmt) ==
    /\ stmt.e \in {"Return", "AssignNew"}
    /\ stmt.rhs.e = "GetElement"

\* C16: obj[key], obj and key expressions that have values, yields the stored
\* child when key names an entry of the map obj or is an index i of the list obj
\* with 0 <= i < len, and aborts the run in every other case
C16_IndexingReturnsChildOrAborts ==
    [][(/\ AtStatement
        /\ IsIndexing(CurStmt)
        /\ StepValue(scopes, CurStmt.rhs.callee).ok
        /\ StepValue(scopes, CurStmt.rhs.k).ok)
       => LET obj == StepValue(scopes, CurStmt.rhs.callee).val
              key == StepValue(scopes, CurStmt.rhs.k).val
          IN IF HasChild(obj, key)
             THEN /\ status' = "running"
                  /\ IF CurStmt.e = "Return"
                     THEN cflw' = "Return" /\ res' = HValue(StoredChild(obj, key))
                     ELSE scopes'[Len(scopes)].variables[CurStmt.var]
                            = StoredChild(obj, key)
             ELSE status' = "panic"]_vars

\* the history entries of dispatched calls
CallEvents == {k \in DOMAIN trace : trace[k].kind = "Call"}

\* the last dispatch of the same Call node before entry k, 0 if there is none
PreviousCall(k) ==
    LET earlier == {j \in 1..(k - 1) : /\ trace[j].kind = "Call"
                                       /\ trace[j].span = trace[k].span}
    IN IF earlier = {} THEN 0 ELSE CHOOSE j \in earlier : \A i \in earlier : i <= j

\* the arguments of the Call node of entry k evaluated since its last dispatch
ArgEvents(k) ==
    LET IsArg(ev) == ev.kind = "Arg" /\ ev.span = trace[k].span
    IN SelectSeq(SubSeq(trace, PreviousCall(k) + 1, k - 1), IsArg)

\* C20: when a Call is dispatched, to a host Callable or to a builtin, each of
\* its argument expressions has been evaluated exactly once since the last
\* dispatch of that Call, in the order of their positions from the first to the
\* last, and the values passed are the values these evaluations gave
C20_ArgumentsLeftToRight ==
    \A k \in CallEvents :
        LET evs == ArgEvents(k)
            argv == trace[k].val.v
        IN /\ Len(evs) = trace[k].owner
           /\ Len(argv) = trace[k].owner
           /\ \A i \in DOMAIN evs : evs[i].owner = i /\ evs[i].val = argv[i]

\* a finished run that called get_answer(l.append(1), l.len(), l[1]) on the list
\* [0]: the second and third argument saw what the first had done
C20_Witness ==
    /\ status = "done"
    /\ \E k \in CallEvents :
        /\ trace[k].name = "get_answer"
        /\ trace[k].val = VList(<<ValNone, VU64(2), VI64(1)>>)
        /\ Len(ArgEvents(k)) = 3

\* the statement at hand is `let r = name.values()`, name a variable
IsValuesCall(stmt) ==
    /\ stmt.e = "AssignNew"
    /\ stmt.rhs.e = "Call"
    /\ stmt.rhs.callee.e = "GetMember"
    /\ stmt.rhs.callee.name = "values"
    /\ stmt.rhs.callee.rhs.e = "Var"

\* the variable an Assign, an AddEquals or an append statement operates on
OperatesOn(stmt) ==
    CASE stmt.e = "Assign" -> stmt.var
      [] stmt.e = "AddEquals" -> stmt.lhs
      [] IsAppendCall(stmt) -> stmt.callee.rhs.name
      [] OTHER -> ""

BoundNames(sc) == UNION {DOMAIN sc[i].variables : i \in DOMAIN sc}

IsSnapshotRun ==
    /\ Len(program) >= 2
    /\ program[1] = SAssignNew(1, "l", program[1].rhs)
    /\ program[1].rhs.e = "List"
    /\ program[2].e = "ForIn"
    /\ program[2].iter = VarL

\* the list l held when the loop started, the elements the loop has visited and
\* the values its body has appended, each in order
EntryList == StepValue(ScopesNew(EmptyMap, EmptyMap), program[1].rhs).val.v
IsIter(ev) == ev.kind = "Iter" /\ ev.span = 2
IsAppend(ev) == ev.kind = "Call" /\ ev.name = "append"
Visited == [k \in DOMAIN SelectSeq(trace, IsIter) |-> SelectSeq(trace, IsIter)[k].val]
Appended == [k \in DOMAIN SelectSeq(trace, IsAppend) |-> SelectSeq(trace, IsAppend)[k].val.v[1]]
LoopLeft == frames[1].pc >= 3

SnapshotVisited ==
    (IsSnapshotRun /\ status \in {"running", "done"}) =>
        /\ Len(Visited) <= Len(EntryList)
        /\ Visited = SubSeq(EntryList, 1, Len(Visited))
        /\ Len(Appended) <= Len(Visited)
        /\ LoopLeft =>
            /\ Visited = EntryList
            /\ IsAppendCall(program[2].body[1]) => Len(Appended) = Len(EntryList)
            /\ scopes[1].variables["l"] = VList(EntryList \o Appended)

\* C29: a for loop over a list variable iterates over the elements the list held
\* when the loop started: it visits them once each in index order and then
\* ends, also when its body appends to the list; the appended elements are in
\* the list after the loop and are not visited
C29_ForIteratesSnapshot ==
    /\ []SnapshotVisited
    /\ [](IsSnapshotRun => <>(status # "running" \/ LoopLeft))

\* the loop over [1, 2] with body l.append(i) has ended: l is [1, 2, 1, 2]
C29_Witness ==
    /\ IsSnapshotRun
    /\ status = "running"
    /\ LoopLeft
    /\ program[2].body = <<SOp(3, Append_(50, EVar("i")))>>
    /\ Visited = <<VI64(1), VI64(2)>>
    /\ scopes[1].variables["l"] = VList(<<VI64(1), VI64(2), VI64(1), VI64(2)>>)

\* the activations that hold a pushed scope: the body of an IfElse or of an
\* IfElseRecursive, and a ForIn inside an iteration
HoldsScope(fr) ==
    \/ fr.kind \in {"IfElse", "IfElseRecursive"}
    \/ fr.kind = "ForIn" /\ fr.inBody

OpenBlocks == Cardinality({k \in DOMAIN frames : HoldsScope(frames[k])})

\* C22: an if, an else-if chain or a for statement leaves the scope stack at
\* the depth it had before the statement on every exit path, a Return raised in
\* a branch body included: at every point of a run the stack holds the root
\* scope and one scope for each block still being executed, and never less
\* than the root scope
C22_BlocksRestoreDepth ==
    status \in {"running", "done"} =>
        /\ Len(scopes) >= 1
        /\ Len(scopes) = 1 + OpenBlocks

\* how often x is an element of the sequence list / a value of the map m
TimesIn(list, x) == Cardinality({i \in DOMAIN list : list[i] = x})
TimesValueOf(m, x) == Cardinality({k \in DOMAIN m : m[k] = x})

\* m.values() gave a list that holds each value of m as often as m does
HoldsValuesOf(list, m) ==
    /\ list.t = "List"
    /\ Len(list.v) = Cardinality(DOMAIN m)
    /\ \A k \in DOMAIN m : TimesIn(list.v, m[k]) = TimesValueOf(m, m[k])

\* C23: let r = m.values(), m a variable that holds a map, binds r to a list
\* that holds each value of the map exactly once, as many elements as the map
\* had entries, and leaves m holding the empty map
C23_ValuesDrainsMap ==
    [][(/\ AtStatement
        /\ IsValuesCall(CurStmt)
        /\ OwnerFrom(scopes, Len(scopes), CurStmt.rhs.callee.rhs.name) # 0
        /\ StepValue(scopes, CurStmt.rhs.callee.rhs).val.t = "Map")
       => LET m == CurStmt.rhs.callee.rhs.name
              i == OwnerFrom(scopes, Len(scopes), m)
          IN /\ status' = "running"
             /\ HoldsValuesOf(scopes'[Len(scopes)].variables[CurStmt.var],
                              scopes[i].variables[m].v)
             /\ scopes'[i].variables[m] = VMap(EmptyMap)]_vars

-----------------------------------------------------------------------------
(* The Interpreter as its host uses it: Interpreter::default(), then calls  *)
(* of register_module, set_value and run in any order                       *)

MaxCalls == 3
MaxRuns == 2

\* the Rc<dyn Module> values the host holds: two TestModule objects
TestModules == {1, 2}
HostNames == {"", "test_module"}
HostValues == {VI64(5)}

\* a script of each kind: one that needs the module, ones that read, bind or
\* change v and x, and one that goes through every statement form
HostPrograms ==
    {<<SReturn(1, Host(50, "get_answer", <<>>))>>,
     <<SReturn(1, EVar("v"))>>,
     <<SReturn(1, EVar("x"))>>,
     <<SAssignNew(1, "x", EI64(1))>>,
     <<SAssign(1, "v", EI64(2)), SReturn(2, EVar("v"))>>,
     <<SAssignNew(1, "x", EI64(0)),
       SForIn(2, ERange(EI64(0), EI64(1), <<>>), "i", <<SAddEquals(3, "x", EVar("i"))>>),
       SIfElseRecursive(4, EBool(FALSE), <<SReturn(5, EI64(5))>>,
                        SIfElse(6, EBool(TRUE), <<SOp(7, EVar("x"))>>, <<>>)),
       SIfElse(8, EBool(TRUE), <<SReturn(9, EVar("x"))>>, <<>>)>>}

\* a history entry of a call the host made
HostEntry(kind, name, val, module) ==
    [kind |-> kind, span |-> 0, name |-> name, val |-> val, depth |-> 0, owner |-> module]

HostCalls == Cardinality({k \in DOMAIN trace : trace[k].kind \in {"register_module", "set_value"}})
Runs == Cardinality({k \in DOMAIN trace : trace[k].kind = "run"})

\* the host may call the interpreter: it is constructed and no run is under way
AtHost == status \in {"host", "done"}

\* mutant: the insert reports that no module had the name
Inserted_AlwaysNew(modules, name, module) ==
    [map |-> (name :> module) @@ modules, result |-> FALSE]

\* `self.modules.insert(name, module)`: the map afterwards, and whether the
\* Option returned is Some
Inserted(modules, name, module) ==
    [map |-> (name :> module) @@ modules, result |-> name \in DOMAIN modules]

\* Interpreter::register_module
RegisterModule ==
    \E name \in HostNames, module \in TestModules :
        /\ UNCHANGED <<mapVars, dictVars, lexVars>>
        /\ AtHost
        /\ HostCalls < MaxCalls
        /\ trace' = Append(trace, HostEntry("register_module", name, ValNone, module))
        /\ IF name = ""
           THEN /\ status' = "panic"
                /\ UNCHANGED interpreter
           ELSE LET ins == Inserted(interpreter.modules, name, module) IN
                /\ interpreter' = [interpreter EXCEPT !.modules = ins.map]
                /\ status' = IF ins.result THEN "panic" ELSE status
        /\ UNCHANGED <<program, build, frames, scopes, cflw, res, result>>

\* Interpreter::set_value
SetValue ==
    \E name \in {"v"}, value \in HostValues :
        /\ UNCHANGED <<mapVars, dictVars, lexVars>>
        /\ AtHost
        /\ HostCalls < MaxCalls
        /\ trace' = Append(trace, HostEntry("set_value", name, value, 0))
        /\ interpreter' = [interpreter EXCEPT !.variables = (name :> value) @@ @]
        /\ UNCHANGED <<program, build, frames, scopes, cflw, res, result, status>>

\* mutant: the fields stay as they were
MemTake_Kept(self) == self

\* `mem::take(&mut self.modules)` and `mem::take(&mut self.variables)`: what
\* the Interpreter holds afterwards
MemTake(self) == InterpreterDefault

\* Interpreter::run, up to the loop over program.stmts
RunStart ==
    \E p \in HostPrograms :
        /\ UNCHANGED <<mapVars, dictVars, lexVars>>
        /\ AtHost
        /\ Runs < MaxRuns
        /\ program' = p
        /\ result' = ValNone
        /\ scopes' = ScopesNew(interpreter.modules, interpreter.variables)
        /\ interpreter' = MemTake(interpreter)
        /\ frames' = <<Frame("run", 0, p)>>
        /\ cflw' = "Continue"
        /\ res' = HNone
        /\ status' = "running"
        /\ trace' = Append(trace, HostEntry("run", "", ValNone, 0))
        /\ UNCHANGED build

HostInit ==
    /\ MapIdle
    /\ DictIdle
    /\ LexIdle
    /\ interpreter = InterpreterDefault
    /\ build \in {"debug", "release"}
    /\ program = <<>>
    /\ frames = <<>>
    /\ scopes = <<>>
    /\ cflw = "Continue"
    /\ res = HNone
    /\ result = ValNone
    /\ status = "host"
    /\ trace = <<>>

HostNext == RegisterModule \/ SetValue \/ RunStart \/ Next

HostSpec == HostInit /\ [][HostNext]_vars

\* the step is a call of register_module
IsRegisterModule ==
    /\ Len(trace') = Len(trace) + 1
    /\ trace'[Len(trace')].kind = "register_module"

\* C21: register_module(name, module) panics when name is empty or a module is
\* registered under name; otherwise the call returns, the Interpreter then has
\* module under name and every module it had before; and a run that starts
\* resolves each registered name to the module registered under it
C21_RegisterModuleChecksName ==
    [][/\ IsRegisterModule
          => LET name == trace'[Len(trace')].name
                 module == trace'[Len(trace')].owner
             IN IF name = "" \/ name \in DOMAIN interpreter.modules
                THEN status' = "panic"
                ELSE /\ status' = status
                     /\ DOMAIN interpreter'.modules = DOMAIN interpreter.modules \cup {name}
                     /\ interpreter'.modules[name] = module
                     /\ \A n \in DOMAIN interpreter.modules :
                            interpreter'.modules[n] = interpreter.modules[n]
       /\ (AtHost /\ status' = "running")
          => \A n \in DOMAIN interpreter.modules :
                ScopesGet(scopes', n) = Ok(HObject(interpreter.modules[n]))]_vars

\* a run that returned the answer of the module 2 registered as test_module
C21_Witness ==
    /\ status = "done"
    /\ result = VI64(42)
    /\ \E k \in DOMAIN trace :
        /\ trace[k].kind = "register_module"
        /\ trace[k].name = "test_module"
        /\ trace[k].owner = 2
    /\ scopes[1].modules = ("test_module" :> 2)

\* the last call of run in the history, 0 if there is none
LastRun ==
    LET runs == {k \in DOMAIN trace : trace[k].kind = "run"}
    IN IF runs = {} THEN 0 ELSE CHOOSE k \in runs : \A j \in runs : j <= k

\* the calls of the given kind the host made after the last run
CallsSince(kind) == {k \in DOMAIN trace : k > LastRun /\ trace[k].kind = kind}

\* the last of the calls in ks that names n
LastNaming(ks, n) ==
    CHOOSE k \in ks : trace[k].name = n /\ \A j \in ks : trace[j].name = n => j <= k

\* what register_module and set_value were given since the last run
ModulesSince ==
    [n \in {trace[k].name : k \in CallsSince("register_module")} |->
        trace[LastNaming(CallsSince("register_module"), n)].owner]
VariablesSince ==
    [n \in {trace[k].name : k \in CallsSince("set_value")} |->
        trace[LastNaming(CallsSince("set_value"), n)].val]

\* C27: when run returns, the Interpreter holds no module and no value; and a
\* run starts from a single root scope that holds exactly the modules and values
\* given to register_module and set_value since the run before it (since the
\* construction for the first run), whatever the earlier run bound or changed
C27_RunsShareNothing ==
    [][/\ (status = "running" /\ status' = "done")
          => interpreter' = InterpreterDefault
       /\ (AtHost /\ status' = "running")
          => /\ Len(scopes') = 1
             /\ scopes'[1].modules = ModulesSince
             /\ scopes'[1].variables = VariablesSince]_vars

\* a second run that reads v and panics: v was set before the first run, which
\* returned, and not again
C27_Witness ==
    /\ status = "panic"
    /\ Runs = 2
    /\ program = <<SReturn(1, EVar("v"))>>
    /\ trace[1].kind = "set_value"
    /\ trace[2].kind = "run"
    /\ CallsSince("set_value") = {}
    /\ trace[Len(trace)].kind = "run"

-----------------------------------------------------------------------------
(* Value::map_insert called on a value, starting from Value::make_map() *)

MapKeys == {"", "foobar", "a"}
MapVals == {VStr("hi"), VStr("ho"), VI64(1)}

\* value.map_insert(key, v)
MapInsertCall ==
    \E key \in MapKeys, v \in MapVals :
        LET r == MapInsert(mapValue, key, v) IN
        /\ mapValue' = r.self
        /\ lastCall' = [op |-> "map_insert", key |-> key, value |-> v,
                        before |-> mapValue, res |-> r.res]
        /\ UNCHANGED <<interpVars, dictVars, lexVars>>

MapInit ==
    /\ mapValue = VMap(EmptyMap)
    /\ lastCall = [op |-> "none"]
    /\ DictIdle
    /\ LexIdle
    /\ program = <<>> /\ build = "debug" /\ frames = <<>> /\ scopes = <<>>
    /\ cflw = "Continue" /\ res = HNone /\ result = ValNone /\ status = "idle"
    /\ interpreter = InterpreterDefault
    /\ trace = <<>>

\* value.get(key)
GetCall ==
    \E key \in MapKeys :
        /\ lastCall' = [op |-> "get", key |-> key, value |-> ValNone,
                        before |-> mapValue, res |-> Get(mapValue, key)]
        /\ UNCHANGED <<mapValue, interpVars, dictVars, lexVars>>

\* value.get_child(key.into())
GetChildCall ==
    \E key \in MapKeys :
        /\ lastCall' = [op |-> "get_child", key |-> key, value |-> ValNone,
                        before |-> mapValue, res |-> GetChild(mapValue, VStr(key))]
        /\ UNCHANGED <<mapValue, interpVars, dictVars, lexVars>>

MapNext == MapInsertCall \/ GetCall \/ GetChildCall

MapSpec == MapInit /\ [][MapNext]_vars

\* C5: map_insert(k, v) on a map that has key k returns FieldAlreadyExists and
\* leaves the map as it was: k maps to its old value, the number of children is
\* the same
C5_ExistingKeyLeavesMapUnchanged ==
    (lastCall.op = "map_insert" /\ lastCall.key \in DOMAIN lastCall.before.v) =>
        /\ lastCall.res = Err("FieldAlreadyExists")
        /\ mapValue.v[lastCall.key] = lastCall.before.v[lastCall.key]
        /\ NumChildren(mapValue) = NumChildren(lastCall.before)
        /\ mapValue = lastCall.before

\* C11: once map_insert(k, v) has returned Ok, a lookup of k returns v, through
\* get(k) as well as through get_child(k), for every key map_insert takes
C11_InsertedKeyIsFound ==
    [][(/\ lastCall.op = "map_insert"
        /\ lastCall.res.ok
        /\ lastCall'.op \in {"get", "get_child"}
        /\ lastCall'.key = lastCall.key)
       => lastCall'.res = Ok(lastCall.value)]_vars

-----------------------------------------------------------------------------
(* Value::add, multiply, equals, is_greater_than and is_smaller_than called on  *)
(* a value; f64 is not modelled                                                 *)

\* the receivers and the arguments: every integer tag with its least and greatest
\* values and the values next to them, and the tags that are not numbers
Operands ==
    {VI64(i) : i \in {I64Min, -1, 0, 1, MaxLit, I64Max}}
    \cup {VU64(i) : i \in {0, 1, MaxLit, U8Max + 1, I64Max, I64Max + 1, U64Max}}
    \cup {VU8(i) : i \in {0, 1, MaxLit, U8Max}}
    \cup {VBool(TRUE), VBool(FALSE), VStr("a"), ValNone}

\* the elements of the lists and maps get_type is called on
MaxElems == 2
Elements == {VI64(1), VU64(MaxLit), VU8(1), VStr("foo"), ValNone}
Lists == {VList(l) : l \in UNION {[1..n -> Elements] : n \in 0..MaxElems}}
Maps == {VMap(m) : m \in UNION {[ks -> Elements] : ks \in SUBSET {"foo", "cat", "a"}}}

\* the orders in which HashMap::values can yield the values of m, by key
Orders(m) ==
    {o \in [1..Cardinality(DOMAIN m) -> DOMAIN m] :
        \A i, j \in DOMAIN o : i # j => o[i] # o[j]}

\* the methods by name
Method(name, self, other) ==
    CASE name = "add" -> ValueAdd(self, other)
      [] name = "multiply" -> ValueMultiply(self, other)
      [] name = "equals" -> ValueEquals(self, other)
      [] name = "is_greater_than" -> IsGreaterThan(self, other)
      [] name = "is_smaller_than" -> IsSmallerThan(self, other)

\* the call self.name(other) and its outcome; the methods take &self
MethodCall(name, self, other) ==
    [op |-> name, key |-> "", value |-> other, before |-> self,
     res |-> Method(name, self, other)]

AddCall ==
    \E other \in Operands :
        /\ lastCall' = MethodCall("add", mapValue, other)
        /\ UNCHANGED <<mapValue, interpVars, dictVars, lexVars>>

MultiplyCall ==
    \E other \in Operands :
        /\ lastCall' = MethodCall("multiply", mapValue, other)
        /\ UNCHANGED <<mapValue, interpVars, dictVars, lexVars>>

EqualsCall ==
    \E other \in Operands :
        /\ lastCall' = MethodCall("equals", mapValue, other)
        /\ UNCHANGED <<mapValue, interpVars, dictVars, lexVars>>

IsGreaterThanCall ==
    \E other \in Operands :
        /\ lastCall' = MethodCall("is_greater_than", mapValue, other)
        /\ UNCHANGED <<mapValue, interpVars, dictVars, lexVars>>

IsSmallerThanCall ==
    \E other \in Operands :
        /\ lastCall' = MethodCall("is_smaller_than", mapValue, other)
        /\ UNCHANGED <<mapValue, interpVars, dictVars, lexVars>>

\* self.get_type()
GetTypeCall ==
    \E order \in IF mapValue.t = "Map" THEN Orders(mapValue.v) ELSE {<<>>} :
        /\ lastCall' = [op |-> "get_type", key |-> "", value |-> ValNone,
                        before |-> mapValue, res |-> GetType(mapValue, order)]
        /\ UNCHANGED <<mapValue, interpVars, dictVars, lexVars>>

\* `self as typename`, the result taking the place of self; origin is the
\* operand and the type of the cast that gave self, if a cast did
CastCall ==
    \E typename \in {"U8", "I64", "U64"} :
        LET r == Cast(mapValue, typename) IN
        /\ lastCall' = [op |-> "cast", key |-> typename, value |-> ValNone,
                        before |-> mapValue, res |-> r,
                        origin |-> IF lastCall.op = "cast" /\ lastCall.res.ok
                                   THEN <<lastCall.before, lastCall.key>> ELSE <<>>]
        /\ mapValue' = IF r.ok THEN r.val ELSE mapValue
        /\ UNCHANGED <<interpVars, dictVars, lexVars>>

ValueInit ==
    /\ mapValue \in Operands \cup Lists \cup Maps
    /\ lastCall = [op |-> "none"]
    /\ DictIdle
    /\ LexIdle
    /\ program = <<>> /\ build \in {"debug", "release"} /\ frames = <<>> /\ scopes = <<>>
    /\ cflw = "Continue" /\ res = HNone /\ result = ValNone /\ status = "idle"
    /\ interpreter = InterpreterDefault
    /\ trace = <<>>

ValueNext ==
    \/ AddCall \/ MultiplyCall \/ EqualsCall \/ IsGreaterThanCall \/ IsSmallerThanCall
    \/ GetTypeCall \/ CastCall

ValueSpec == ValueInit /\ [][ValueNext]_vars

Methods == {"add", "multiply", "equals", "is_greater_than", "is_smaller_than"}

\* other carries, or converts via TryInto into, the numeric type of self
ConvertsInto(self, other) ==
    CASE self.t = "I64" -> TryIntoI64(other).ok
      [] self.t = "U64" -> TryIntoU64(other).ok
      [] self.t = "U8" -> TryIntoU8(other).ok
      [] OTHER -> FALSE

\* C14: add, multiply, equals, is_greater_than and is_smaller_than return no
\* ValueError when the receiver is an I64, U64 or U8 and the argument converts into
\* the receiver's type, and return Ok for no other operands (equals on two Bools
\* apart)
C14_NumericOperandsSucceed ==
    lastCall.op \in Methods =>
        LET self == lastCall.before
            other == lastCall.value
            r == lastCall.res
        IN
        /\ ConvertsInto(self, other) => (r.ok \/ r.err = "ArithmeticOverflowPanic")
        /\ r.ok => \/ ConvertsInto(self, other)
                   \/ lastCall.op = "equals" /\ self.t = "Bool" /\ other.t = "Bool"

\* other as a number of the integer type of self, when ConvertsInto(self, other)
Converted(self, other) ==
    CASE self.t = "I64" -> TryIntoI64(other).val
      [] self.t = "U64" -> TryIntoU64(other).val
      [] self.t = "U8" -> TryIntoU8(other).val

\* n is a number of the integer type named t
Fits(t, n) ==
    CASE t = "I64" -> I64Min <= n /\ n <= I64Max
      [] t = "U64" -> 0 <= n /\ n <= U64Max
      [] t = "U8" -> 0 <= n /\ n <= U8Max

\* the sum or product of the call, as numbers
Exact(op, self, other) ==
    IF op = "add" THEN self.v + Converted(self, other) ELSE self.v * Converted(self, other)

\* C26: add and multiply on an I64, U64 or U8 receiver and an argument that
\* converts into its type return Err(IntegerOverflow) when the sum or product
\* is no number of the receiver's type
C26_OverflowIsTypedError ==
    (/\ lastCall.op \in {"add", "multiply"}
     /\ ConvertsInto(lastCall.before, lastCall.value)
     /\ ~Fits(lastCall.before.t, Exact(lastCall.op, lastCall.before, lastCall.value)))
    => lastCall.res = Err("IntegerOverflow")

\* C28: add and multiply that return a value return one of the receiver's type,
\* whatever the type of the argument: the sum or product of the receiver and the
\* argument converted to that type, when it is a number of that type
C28_ResultHasLeftType ==
    (lastCall.op \in {"add", "multiply"} /\ lastCall.res.ok)
    => /\ lastCall.res.val.t = lastCall.before.t
       /\ Fits(lastCall.before.t, Exact(lastCall.op, lastCall.before, lastCall.value))
            => lastCall.res.val.v = Exact(lastCall.op, lastCall.before, lastCall.value)

\* U64 + I64 gave a U64, I64 + U64 an I64 and U8 + U8 a U8
C28_Witness ==
    /\ lastCall.op = "add"
    /\ lastCall.before = VU64(1)
    /\ lastCall.value = VI64(MaxLit)
    /\ lastCall.res = Ok(VU64(1 + MaxLit))

\* the inferred types of the elements of a List, of the values of a Map
ElementTypes(self) == {GetType(self.v[k], <<>>) : k \in DOMAIN self.v}

\* C15: get_type of a List or Map whose elements all have the inferred type T
\* gives List(T) or Map(String, T); when two elements have different inferred
\* types it gives List(Any) or Map(String, Any), Value::None elements included
C15_HeterogeneousIsAny ==
    (lastCall.op = "get_type" /\ lastCall.before.t \in {"List", "Map"}) =>
        LET self == lastCall.before
            Of(elem) == IF self.t = "List" THEN TypeList(elem)
                        ELSE TypeMap(Primitive("String"), elem)
        IN
        /\ \A T \in ElementTypes(self) : ElementTypes(self) = {T} => lastCall.res = Of(T)
        /\ Cardinality(ElementTypes(self)) >= 2 => lastCall.res = Of(Primitive("Any"))

\* the last two calls were `v as i64` and, on its result, `.. as u64`, v a U64
\* that an i64 can hold
CastRoundTrip ==
    /\ lastCall.op = "cast"
    /\ lastCall.key = "U64"
    /\ lastCall.origin # <<>>
    /\ lastCall.origin[2] = "I64"
    /\ lastCall.origin[1].t = "U64"
    /\ lastCall.origin[1].v <= I64Max

\* C17: for a U64 v with 0 <= v <= i64::MAX, `v as i64` is the I64 of the same
\* number, and that `as u64` is v again
C17_CastRoundTrip ==
    CastRoundTrip =>
        /\ lastCall.before = VI64(lastCall.origin[1].v)
        /\ lastCall.res = Ok(lastCall.origin[1])
        /\ mapValue = lastCall.origin[1]

C17_Witness ==
    /\ CastRoundTrip
    /\ lastCall.origin[1] = VU64(I64Max)
    /\ mapValue = VU64(I64Max)

-----------------------------------------------------------------------------
(* A dictionary literal: the parser's kvs production, then Expr::Dictionary *)

MaxPairs == 3

DictKeys == {"a", "b"}
DictAtoms == {EI64(1), EI64(2)}

\* HashMap::insert
HashMapInsert(m, k, v) == [x \in (DOMAIN m) \cup {k} |-> IF x = k THEN v ELSE m[x]]

\* kvs: the HashMap built from the first n `StringLiteral Colon atom` entries
RECURSIVE Kvs(_, _)
Kvs(pairs, n) ==
    IF n = 0 THEN EmptyMap
    ELSE HashMapInsert(Kvs(pairs, n - 1), pairs[n][1], pairs[n][2])

\* atom: OpenCurlyBracket kvs CloseCurlyBracket => Expr::Dictionary(m)
ParseKvs ==
    /\ dictStage = "source"
    /\ kvsNode' = Kvs(kvsSource, Len(kvsSource))
    /\ dictStage' = "parsed"
    /\ UNCHANGED <<kvsSource, dictValue, opVars, interpVars, mapVars, lexVars>>

\* Interpreter::step on the Expr::Dictionary node
EvalDictionary ==
    /\ dictStage = "parsed"
    /\ dictValue' = LET r == StepValue(ScopesNew(EmptyMap, EmptyMap), EDictionary(kvsNode))
                    IN IF r.ok THEN Ok(r.val) ELSE r
    /\ dictStage' = "evaluated"
    /\ UNCHANGED <<kvsSource, kvsNode, opVars, interpVars, mapVars, lexVars>>

DictInit ==
    /\ kvsSource \in UNION {[1..n -> DictKeys \X DictAtoms] : n \in 0..MaxPairs}
    /\ kvsNode = <<>>
    /\ dictValue = Err("not evaluated")
    /\ dictStage = "source"
    /\ OpIdle
    /\ MapIdle
    /\ LexIdle
    /\ program = <<>> /\ build = "debug" /\ frames = <<>> /\ scopes = <<>>
    /\ cflw = "Continue" /\ res = HNone /\ result = ValNone /\ status = "idle"
    /\ interpreter = InterpreterDefault
    /\ trace = <<>>

DictNext == ParseKvs \/ EvalDictionary

DictSpec == DictInit /\ [][DictNext]_vars

HasDuplicateKey(pairs) ==
    \E i, j \in DOMAIN pairs : i # j /\ pairs[i][1] = pairs[j][1]

\* C6: a dictionary literal that lists a key more than once never evaluates to a
\* map value
C6_DuplicateKeyIsFatal ==
    (HasDuplicateKey(kvsSource) /\ dictStage = "evaluated") =>
        ~(dictValue.ok /\ dictValue.val.t = "Map")

-----------------------------------------------------------------------------
(* An expression of integer literals, binary operators and brackets: the     *)
(* parser's op, term and atom productions, then Interpreter::step            *)

MaxOperands == 3

\* (Token, Span) items; the span is left out
OpTok(tok) == [tok |-> tok, val |-> 0]
OpLit(i) == [tok |-> "I64Literal", val |-> i]

BinaryTokens == {"Plus", "Star", "Equals", "Greater", "Smaller"}
\* the tokens after which a term goes on: member, call and element access
TermContinues == {"Period", "OpenBracket", "OpenSquareBracket"}

OpLits == {1, 4, 5}
PlainOperands == {<<OpLit(i)>> : i \in OpLits}
BracketOperands ==
    {<<OpTok("OpenBracket"), OpLit(1), OpTok(b), OpLit(4), OpTok("CloseBracket")>> :
        b \in {"Plus", "Star"}}

Brackets(toks) == Cardinality({k \in DOMAIN toks : toks[k].tok = "OpenBracket"})

\* operand (operator operand)*, n operands of which at most one is in brackets
RECURSIVE Chains(_)
Chains(n) ==
    IF n = 1 THEN PlainOperands \cup BracketOperands
    ELSE {s \in {c \o <<OpTok(b)>> \o o :
                    c \in Chains(n - 1), b \in BinaryTokens,
                    o \in PlainOperands \cup BracketOperands} : Brackets(s) <= 1}

OpSources == UNION {Chains(n) : n \in 1..MaxOperands}

\* an entry of the parser's stack: a token, or a term or an op with its node
NoNode == [e |-> "None"]
Shifted(t) == [sym |-> t.tok, val |-> t.val, node |-> NoNode]
Reduced(sym, node) == [sym |-> sym, val |-> 0, node |-> node]

\* mutant: the productions of op take their operands in the other order
BinaryNode_Swapped(tok, lhs, rhs) ==
    CASE tok = "Plus" -> EAdd(rhs, lhs)
      [] tok = "Star" -> EMultiply(rhs, lhs)
      [] tok = "Equals" -> ECompare("Equals", rhs, lhs)
      [] tok = "Greater" -> ECompare("Greater", rhs, lhs)
      [] tok = "Smaller" -> ECompare("Smaller", rhs, lhs)

\* op: `op[lhs] Plus term[rhs]`, `op[lhs] Star term[rhs]`, `op[lhs] Equals
\* term[rhs]`, `op[lhs] Greater term[rhs]`, `op[lhs] Smaller term[rhs]`
BinaryNode(tok, lhs, rhs) ==
    CASE tok = "Plus" -> EAdd(lhs, rhs)
      [] tok = "Star" -> EMultiply(lhs, rhs)
      [] tok = "Equals" -> ECompare("Equals", lhs, rhs)
      [] tok = "Greater" -> ECompare("Greater", lhs, rhs)
      [] tok = "Smaller" -> ECompare("Smaller", lhs, rhs)

\* the generated parser on op: it reduces by a production as soon as its right
\* side is on the stack and shifts the next token otherwise. No production of
\* op has an op to the right of an operator, so no operator waits for the next
\* one. Member, call and element access are not modelled: no source has a
\* term followed by one of TermContinues.
RECURSIVE ParseOp(_, _)
ParseOp(stack, toks) ==
    LET n == Len(stack)
        look == IF toks = <<>> THEN "end" ELSE toks[1].tok
        below(k) == SubSeq(stack, 1, n - k)
    IN CASE n >= 1 /\ stack[n].sym = "I64Literal" ->
              \* atom: I64Literal(i) => Expr::I64(i); term: atom[x] => x
              ParseOp(Append(below(1), Reduced("term", EI64(stack[n].val))), toks)
         [] n >= 3 /\ stack[n].sym = "CloseBracket" /\ stack[n - 1].sym = "op"
                   /\ stack[n - 2].sym = "OpenBracket" ->
              \* term: OpenBracket op[inner] CloseBracket
              ParseOp(Append(below(3), Reduced("term", EBrackets(stack[n - 1].node))), toks)
         [] n >= 3 /\ stack[n].sym = "term" /\ look \notin TermContinues
                   /\ stack[n - 1].sym \in BinaryTokens /\ stack[n - 2].sym = "op" ->
              \* op: op[lhs] operator term[rhs]
              ParseOp(Append(below(3),
                             Reduced("op", BinaryNode(stack[n - 1].sym, stack[n - 2].node,
                                                      stack[n].node))), toks)
         [] n >= 1 /\ stack[n].sym = "term" /\ look \notin TermContinues
                   /\ (n = 1 \/ stack[n - 1].sym \notin BinaryTokens) ->
              \* op: term[t] => t
              ParseOp(Append(below(1), Reduced("op", stack[n].node)), toks)
         [] OTHER ->
              IF toks # <<>> THEN ParseOp(Append(stack, Shifted(toks[1])), Tail(toks))
              ELSE IF n = 1 /\ stack[1].sym = "op" THEN Ok(stack[1].node)
              ELSE Err("syntax error")

\* parse_ on the tokens of the expression
ParseExpr ==
    /\ opStage = "source"
    /\ opNode' = ParseOp(<<>>, opSource)
    /\ opStage' = "parsed"
    /\ UNCHANGED <<opSource, opValue, kvsSource, kvsNode, dictValue, dictStage,
                   interpVars, mapVars, lexVars>>

\* Interpreter::step on the node
EvalExpr ==
    /\ opStage = "parsed"
    /\ opValue' = IF opNode.ok
                  THEN LET r == StepValue(ScopesNew(EmptyMap, EmptyMap), opNode.val)
                       IN IF r.ok THEN Ok(r.val) ELSE r
                  ELSE opNode
    /\ opStage' = "evaluated"
    /\ UNCHANGED <<opSource, opNode, kvsSource, kvsNode, dictValue, dictStage,
                   interpVars, mapVars, lexVars>>

OpInit ==
    /\ opSource \in OpSources
    /\ opNode = Err("not parsed")
    /\ opValue = Err("not evaluated")
    /\ opStage = "source"
    /\ kvsSource = <<>> /\ kvsNode = <<>>
    /\ dictValue = Err("not evaluated") /\ dictStage = "idle"
    /\ MapIdle
    /\ LexIdle
    /\ program = <<>> /\ build = "debug" /\ frames = <<>> /\ scopes = <<>>
    /\ cflw = "Continue" /\ res = HNone /\ result = ValNone /\ status = "idle"
    /\ interpreter = InterpreterDefault
    /\ trace = <<>>

OpNext == ParseExpr \/ EvalExpr

OpSpec == OpInit /\ [][OpNext]_vars

\* the bracket depth of the token at position k
Nesting(toks, k) ==
    Cardinality({j \in 1..k : toks[j].tok = "OpenBracket"})
    - Cardinality({j \in 1..k : toks[j].tok = "CloseBracket"})

\* the positions of the operators outside every bracket
Outer(toks) ==
    {k \in DOMAIN toks : toks[k].tok \in BinaryTokens /\ Nesting(toks, k) = 0}

LastOuter(toks) == CHOOSE k \in Outer(toks) : \A j \in Outer(toks) : j <= k

\* the expression grouped from the left: everything before the last operator
\* outside brackets is its left operand
RECURSIVE LeftGrouped(_)
LeftGrouped(toks) ==
    IF Outer(toks) # {}
    THEN LET k == LastOuter(toks)
             lhs == LeftGrouped(SubSeq(toks, 1, k - 1))
             rhs == LeftGrouped(SubSeq(toks, k + 1, Len(toks)))
         IN CASE toks[k].tok = "Plus" -> [e |-> "Add", lhs |-> lhs, rhs |-> rhs]
              [] toks[k].tok = "Star" -> [e |-> "Multiply", lhs |-> lhs, rhs |-> rhs]
              [] toks[k].tok = "Equals" ->
                    [e |-> "Compare", ctype |-> "Equals", lhs |-> lhs, rhs |-> rhs]
              [] toks[k].tok = "Greater" ->
                    [e |-> "Compare", ctype |-> "Greater", lhs |-> lhs, rhs |-> rhs]
              [] toks[k].tok = "Smaller" ->
                    [e |-> "Compare", ctype |-> "Smaller", lhs |-> lhs, rhs |-> rhs]
    ELSE IF toks[1].tok = "OpenBracket"
    THEN [e |-> "Brackets", inner |-> LeftGrouped(SubSeq(toks, 2, Len(toks) - 1))]
    ELSE [e |-> "I64", i |-> toks[1].val]

\* the number an expression of + and * stands for when grouped from the left
RECURSIVE LeftValue(_)
LeftValue(toks) ==
    IF Outer(toks) # {}
    THEN LET k == LastOuter(toks)
             a == LeftValue(SubSeq(toks, 1, k - 1))
             b == LeftValue(SubSeq(toks, k + 1, Len(toks)))
         IN IF toks[k].tok = "Plus" THEN a + b ELSE a * b
    ELSE IF toks[1].tok = "OpenBracket" THEN LeftValue(SubSeq(toks, 2, Len(toks) - 1))
    ELSE toks[1].val

IsArithmetic(toks) ==
    \A k \in DOMAIN toks : toks[k].tok \in BinaryTokens => toks[k].tok \in {"Plus", "Star"}

\* C30: +, *, ==, > and < have one precedence and associate to the left: an
\* expression without brackets is parsed as if every operator took all that
\* stands before it as its left operand, a + b * c as (a + b) * c, and only
\* brackets group otherwise; an expression of + and * evaluates to the number
\* this grouping gives
C30_OperatorsGroupFromLeft ==
    /\ opStage \in {"parsed", "evaluated"} => opNode = Ok(LeftGrouped(opSource))
    /\ (opStage = "evaluated" /\ IsArithmetic(opSource) /\ LeftValue(opSource) <= I64Max)
       => opValue = Ok(VI64(LeftValue(opSource)))

\* 1 + 4 * 5 was parsed as (1 + 4) * 5 and evaluated to 25, not to 21
C30_Witness ==
    /\ opStage = "evaluated"
    /\ opSource = <<OpLit(1), OpTok("Plus"), OpLit(4), OpTok("Star"), OpLit(5)>>
    /\ opNode = Ok(EMultiply(EAdd(EI64(1), EI64(4)), EI64(5)))
    /\ opValue = Ok(VI64(25))

-----------------------------------------------------------------------------
(* The lexer: parse_indents, get_next_indent, take_token and Lexer::next *)

MaxLen == 5

\* the characters of the sources: a space, a line feed, a letter, the comment
\* sign and a string delimiter
Chars == {" ", "\n", "x", "#", "'"}

Sources == UNION {[1..n -> Chars] : n \in 0..MaxLen}

\* [0-9]
Digits == {"0", "1", "2", "3", "4", "5", "6", "7", "8", "9"}
DigitValue ==
    [c \in Digits |->
        CASE c = "0" -> 0 [] c = "1" -> 1 [] c = "2" -> 2 [] c = "3" -> 3
          [] c = "4" -> 4 [] c = "5" -> 5 [] c = "6" -> 6 [] c = "7" -> 7
          [] c = "8" -> 8 [] c = "9" -> 9]

\* the integer literals go up to MaxLiteral
MaxLiteral == 260

\* the decimal text of n
RECURSIVE Decimal(_)
Decimal(n) ==
    LET digit == CHOOSE c \in Digits : DigitValue[c] = n % 10 IN
    IF n < 10 THEN <<digit>> ELSE Append(Decimal(n \div 10), digit)

\* the sources that are one integer literal: `n`, `nu` and `nu8`
LiteralSources ==
    {Decimal(n) \o suffix : n \in 0..MaxLiteral, suffix \in {<<>>, <<"u">>, <<"u", "8">>}}

\* the sources of up to MaxLines lines `x`, indented by no or one space
MaxLines == 3
Lines == {<<"x">>, <<" ", "x">>}
RECURSIVE Joined(_)
Joined(ls) == IF Len(ls) = 1 THEN ls[1] ELSE ls[1] \o <<"\n">> \o Joined(Tail(ls))
LineSources == {Joined(ls) : ls \in UNION {[1..n -> Lines] : n \in 2..MaxLines}}

\* *indents.entry(pos).or_insert(0) += d
EntryAdd(ind, pos, d) ==
    IF pos \in DOMAIN ind THEN [ind EXCEPT ![pos] = @ + d] ELSE (pos :> d) @@ ind

\* parse_indents: the loop at the first character of a line that is not a space
RECURSIVE Unwind(_, _, _, _)
Unwind(ind, last_icount, current_icount, pos) ==
    LET top == last_icount[Len(last_icount)] IN
    IF current_icount < top
    THEN Unwind(EntryAdd(ind, pos, -2), SubSeq(last_icount, 1, Len(last_icount) - 1),
                current_icount, pos)
    ELSE IF current_icount > top
    THEN [indents |-> EntryAdd(ind, pos, 2),
          last_icount |-> Append(last_icount, current_icount)]
    ELSE [indents |-> ind, last_icount |-> last_icount]

\* parse_indents: the loop over s.chars().enumerate(), from the character at pos on
RECURSIVE ScanIndents(_, _, _)
ScanIndents(s, pos, st) ==
    IF pos = Len(s) THEN st
    ELSE LET c == s[pos + 1]
             a == IF c = " " /\ st.is_newline
                  THEN [st EXCEPT !.current_icount = @ + 1]
                  ELSE IF c # " " /\ st.is_newline
                  THEN LET u == Unwind(st.indents, st.last_icount, st.current_icount, pos)
                       IN [st EXCEPT !.indents = u.indents,
                                     !.last_icount = u.last_icount,
                                     !.is_newline = FALSE]
                  ELSE st
             b == IF c = "\n" THEN [a EXCEPT !.is_newline = TRUE, !.current_icount = 0]
                  ELSE a
         IN ScanIndents(s, pos + 1, b)

\* parse_indents: the Dedents at the end, one for each level still open
RECURSIVE CloseIndents(_, _, _)
CloseIndents(ind, last_icount, len) ==
    IF Len(last_icount) > 1
    THEN CloseIndents(EntryAdd(ind, len, -2),
                      SubSeq(last_icount, 1, Len(last_icount) - 1), len)
    ELSE ind

parse_indents(s) ==
    LET st == ScanIndents(s, 0, [indents |-> <<>>, is_newline |-> FALSE,
                                 current_icount |-> 0, last_icount |-> <<0>>])
    IN CloseIndents(st.indents, st.last_icount, Len(s))

\* BTreeMap::first_entry: the entry with the least key
FirstKey(ind) == CHOOSE k \in DOMAIN ind : \A j \in DOMAIN ind : k <= j

\* get_next_indent: None, Some(token) with the map it leaves, or the panic
get_next_indent(pos, ind) ==
    IF DOMAIN ind = {} THEN [some |-> FALSE, panic |-> FALSE]
    ELSE LET ipos == FirstKey(ind)
             e == ind[ipos]
             e2 == IF e < 0 THEN e + 1 ELSE e - 2
         IN IF ipos # pos THEN [some |-> FALSE, panic |-> FALSE]
            ELSE IF e = 0 THEN [some |-> FALSE, panic |-> TRUE]
            ELSE [some |-> TRUE, panic |-> FALSE,
                  token |-> IF e < 0
                            THEN (IF e % 2 = 0 THEN "Newline" ELSE "Dedent")
                            ELSE "Indent",
                  indents |-> IF e2 = 0
                              THEN [k \in (DOMAIN ind) \ {ipos} |-> ind[k]]
                              ELSE [ind EXCEPT ![ipos] = e2]]

\* the number of characters from index i on that come before one of stop
RECURSIVE RunLength(_, _, _)
RunLength(r, i, stop) ==
    IF i > Len(r) \/ r[i] \in stop THEN 0 ELSE 1 + RunLength(r, i + 1, stop)

\* str::parse on the first n characters of r, all of them digits: Err when the
\* number does not fit the integer type, whose greatest value is max
RECURSIVE ParseDigits(_, _, _)
ParseDigits(r, n, max) ==
    IF n = 0 THEN Ok(0)
    ELSE LET hd == ParseDigits(r, n - 1, max) IN
         IF ~hd.ok THEN hd
         ELSE IF hd.val * 10 + DigitValue[r[n]] > max THEN Err("ParseIntError")
         ELSE Ok(hd.val * 10 + DigitValue[r[n]])

\* `i as u8`
AsU8(i) == i % (U8Max + 1)

\* take_token: the rules "[0-9]+", "[0-9]+u" and "[0-9]+u8" on n digits at the
\* head of r; the longest of them that matches is taken
IntegerLiteral(r, n) ==
    LET Tok(t, v, len) == [some |-> TRUE, panic |-> FALSE, tok |-> t, val |-> <<v>>,
                           remaining |-> SubSeq(r, len + 1, Len(r))]
        Fatal == [some |-> FALSE, panic |-> TRUE]
        i64 == ParseDigits(r, n, I64Max)
        u64 == ParseDigits(r, n, U64Max)
    IN IF n + 2 <= Len(r) /\ r[n + 1] = "u" /\ r[n + 2] = "8"
       THEN IF ~i64.ok THEN Fatal
            ELSE IF i64.val < 0 \/ i64.val > 256 THEN Fatal
            ELSE Tok("U8Literal", AsU8(i64.val), n + 2)
       ELSE IF n + 1 <= Len(r) /\ r[n + 1] = "u"
       THEN IF u64.ok THEN Tok("U64Literal", u64.val, n + 1) ELSE Fatal
       ELSE IF i64.ok THEN Tok("I64Literal", i64.val, n) ELSE Fatal

\* take_token: the longest match at the head of remaining
take_token(r) ==
    IF r = <<>> THEN [some |-> FALSE, panic |-> FALSE]
    ELSE LET c == r[1]
             Tok(t, n) == [some |-> TRUE, panic |-> FALSE, tok |-> t, val |-> <<>>,
                           remaining |-> SubSeq(r, n + 1, Len(r))]
         IN CASE c = " " -> Tok("Whitespace", 1)
              [] c \in Digits -> IntegerLiteral(r, RunLength(r, 1, Chars \cup {"u"}))
              [] c = "\n" -> Tok("Newline", 1)
              [] c = "#" -> Tok("Comment", 1 + RunLength(r, 2, {"\n"}))
              [] c = "x" -> Tok("Identifier", 1 + RunLength(r, 2, Chars \ {"x"}))
              [] c = "'" -> LET n == RunLength(r, 2, {"'"}) IN
                            IF n + 2 <= Len(r) THEN Tok("StringLiteral", n + 2)
                            ELSE [some |-> FALSE, panic |-> TRUE]

Some(tok, val, lo, hi) ==
    [kind |-> "Some", tok |-> tok, val |-> val, lo |-> lo, hi |-> hi]

\* the loop of Lexer::next on the fields L: the fields it leaves and what it returns
RECURSIVE NextLoop(_, _)
NextLoop(orig, L) ==
    LET ind == get_next_indent(L.position, L.indents) IN
    IF ind.panic THEN [L |-> L, out |-> [kind |-> "panic"]]
    ELSE IF ind.some
    THEN [L |-> [L EXCEPT !.indents = ind.indents, !.empty_line = FALSE],
          out |-> Some(ind.token, <<>>, L.position, L.position)]
    ELSE LET t == take_token(L.remaining) IN
         IF t.panic THEN [L |-> L, out |-> [kind |-> "panic"]]
         ELSE IF ~t.some /\ L.at_end THEN [L |-> L, out |-> [kind |-> "None"]]
         ELSE IF ~t.some /\ L.at_start
         THEN [L |-> [L EXCEPT !.at_end = TRUE], out |-> [kind |-> "None"]]
         ELSE LET tok == IF t.some THEN t.tok ELSE "Newline"
                  val == IF t.some THEN t.val ELSE <<>>
                  lo == IF t.some THEN Len(orig) - Len(L.remaining) ELSE Len(orig)
                  hi == IF t.some THEN Len(orig) - Len(t.remaining) ELSE Len(orig)
                  L1 == [L EXCEPT !.remaining = IF t.some THEN t.remaining ELSE @,
                                  !.at_end = IF t.some THEN @ ELSE TRUE,
                                  !.position = hi]
              IN IF tok \in {"Whitespace", "Comment"} THEN NextLoop(orig, L1)
                 ELSE IF tok = "Newline"
                 THEN IF L1.empty_line THEN NextLoop(orig, L1)
                      ELSE [L |-> [L1 EXCEPT !.empty_line = TRUE], out |-> Some(tok, val, lo, hi)]
                 ELSE [L |-> [L1 EXCEPT !.at_start = FALSE, !.empty_line = FALSE],
                       out |-> Some(tok, val, lo, hi)]

\* Lexer::new(src)
LexerNew(src) ==
    [remaining |-> src, at_start |-> TRUE, at_end |-> FALSE, empty_line |-> TRUE,
     indents |-> parse_indents(src), position |-> 0]

\* the tokens Lexer::next returns on orig from the fields L on, until it returns
\* None: toks with them appended, or the panic
RECURSIVE LexFrom(_, _, _)
LexFrom(orig, L, toks) ==
    LET r == NextLoop(orig, L) IN
    CASE r.out.kind = "Some" -> LexFrom(orig, r.L, Append(toks, r.out))
      [] r.out.kind = "None" -> Ok(toks)
      [] r.out.kind = "panic" -> Err("panic")

LexerFields ==
    [remaining |-> remaining, at_start |-> at_start, at_end |-> at_end,
     empty_line |-> empty_line, indents |-> indents, position |-> position]

\* Lexer::next, called by the parser until it returns None
LexerNext ==
    /\ lexStatus = "lexing"
    /\ LET r == NextLoop(original, LexerFields) IN
       /\ remaining' = r.L.remaining
       /\ at_start' = r.L.at_start
       /\ at_end' = r.L.at_end
       /\ empty_line' = r.L.empty_line
       /\ indents' = r.L.indents
       /\ position' = r.L.position
       /\ tokens' = IF r.out.kind = "Some"
                    THEN Append(tokens, [tok |-> r.out.tok, val |-> r.out.val,
                                         lo |-> r.out.lo, hi |-> r.out.hi])
                    ELSE tokens
       /\ lexStatus' = CASE r.out.kind = "Some" -> "lexing"
                         [] r.out.kind = "None" -> "eof"
                         [] r.out.kind = "panic" -> "panic"
    /\ UNCHANGED <<original, compiled, interpVars, mapVars, dictVars>>

LayoutTokens == {"Newline", "Indent", "Dedent"}

\* parser: `program` on a token sequence without a statement token: no token
\* (statements), or Newlines only (linebreak)
ParseProgram(toks) ==
    IF \A i \in DOMAIN toks : toks[i].tok = "Newline" THEN Ok([stmts |-> <<>>])
    ELSE Err("compile error")

\* compile_string, for the sources whose tokens hold no statement
CompileString ==
    /\ lexStatus = "eof"
    /\ \A i \in DOMAIN tokens : tokens[i].tok \in LayoutTokens
    /\ compiled' = ParseProgram(tokens)
    /\ lexStatus' = "parsed"
    /\ UNCHANGED <<lexerVars, tokens, interpVars, mapVars, dictVars>>

\* Interpreter::default().run(&program) begins
RunCompiled ==
    /\ lexStatus = "parsed"
    /\ compiled.ok
    /\ status = "idle"
    /\ program' = compiled.val.stmts
    /\ frames' = <<Frame("run", 0, compiled.val.stmts)>>
    /\ scopes' = ScopesNew(EmptyMap, EmptyMap)
    /\ status' = "running"
    /\ UNCHANGED <<build, cflw, res, result, trace, interpreter, lexVars, mapVars, dictVars>>

LexInit ==
    /\ original \in Sources \cup LiteralSources \cup LineSources
    /\ remaining = original
    /\ at_start = TRUE
    /\ at_end = FALSE
    /\ empty_line = TRUE
    /\ indents = parse_indents(original)
    /\ position = 0
    /\ tokens = <<>>
    /\ lexStatus = "lexing"
    /\ compiled = Err("not compiled")
    /\ MapIdle
    /\ DictIdle
    /\ program = <<>> /\ build \in {"debug", "release"} /\ frames = <<>> /\ scopes = <<>>
    /\ cflw = "Continue" /\ res = HNone /\ result = ValNone /\ status = "idle"
    /\ interpreter = InterpreterDefault
    /\ trace = <<>>

LexNext == LexerNext \/ CompileString \/ RunCompiled \/ RunEnd

LexSpec == LexInit /\ [][LexNext]_vars

Count(toks, t) == Cardinality({i \in DOMAIN toks : toks[i].tok = t})

\* C7: every prefix of the tokens emitted has at least as many Indents as Dedents,
\* and when the lexer has returned None there are as many of the one as of the other
C7_IndentsBalanced ==
    /\ \A n \in 0..Len(tokens) :
        Count(SubSeq(tokens, 1, n), "Indent") >= Count(SubSeq(tokens, 1, n), "Dedent")
    /\ lexStatus \in {"eof", "parsed"} => Count(tokens, "Indent") = Count(tokens, "Dedent")

\* every line from character i on is spaces, then nothing or a comment
RECURSIVE BlankFrom(_, _, _)
BlankFrom(s, i, inComment) ==
    IF i > Len(s) THEN TRUE
    ELSE CASE s[i] = "\n" -> BlankFrom(s, i + 1, FALSE)
           [] s[i] # "\n" /\ inComment -> BlankFrom(s, i + 1, TRUE)
           [] s[i] = " " /\ ~inComment -> BlankFrom(s, i + 1, FALSE)
           [] s[i] = "#" /\ ~inComment -> BlankFrom(s, i + 1, TRUE)
           [] OTHER -> FALSE

\* C8: a source of whitespace, blank lines and comments only gives no token,
\* compiles to the empty Program, and its run returns Value::None
C8_BlankSourceIsEmptyProgram ==
    BlankFrom(original, 1, FALSE) =>
        /\ tokens = <<>>
        /\ lexStatus # "panic"
        /\ lexStatus = "parsed" => compiled = Ok([stmts |-> <<>>])
        /\ status = "done" => result = ValNone

\* the tokens without their spans
Kinds(toks) == [i \in DOMAIN toks |-> <<toks[i].tok, toks[i].val>>]

\* s with an empty line put in after the line that ends at index p
WithBlankLine(s, p) == SubSeq(s, 1, p) \o <<"\n">> \o SubSeq(s, p + 1, Len(s))

\* the ends of the lines of s that have a line after them
LineEnds(s) == {p \in 1..(Len(s) - 1) : s[p] = "\n"}

\* C24: once a source is lexed to its end, the same source with an empty line
\* put in between any two of its lines lexes to the same tokens
C24_BlankLineChangesNoToken ==
    lexStatus \in {"eof", "parsed"} =>
        \A p \in LineEnds(original) :
            LET blank == WithBlankLine(original, p)
                lexed == LexFrom(blank, LexerNew(blank), <<>>)
            IN lexed.ok /\ Kinds(lexed.val) = Kinds(tokens)

\* C13: the source `nu8` lexes to the token U8Literal(n) when 0 <= n < 256, and
\* is a fatal lexical error, no token being emitted, when n >= 256
C13_U8LiteralBelow256 ==
    \A n \in 0..MaxLiteral :
        original = Decimal(n) \o <<"u", "8">> =>
            IF n < 256
            THEN /\ lexStatus # "panic"
                 /\ tokens # <<>> =>
                        /\ tokens[1].tok = "U8Literal"
                        /\ tokens[1].val = <<n>>
            ELSE /\ tokens = <<>>
                 /\ lexStatus \in {"lexing", "panic"}

====
